---- MODULE Spec2Model ----
(***************************************************************************)
(* A model of math-parse: tokenizer, infix parser (positional tree built   *)
(* in place), tree-to-RPN walk, postfix parser, stack executor and the     *)
(* Int/Float numeric value.                                                *)
(*                                                                         *)
(* Conventions                                                             *)
(*  - A character is a one-element string; a glyph outside ASCII is named  *)
(*    by its code point ("u2212" is the minus sign U+2212).  A text (the   *)
(*    expression, a name, a replacement) is a sequence of characters.      *)
(*  - Sequences are 1-based: index i of the source is index i+1 here.      *)
(*    Offsets are relative and are the source's.  A range is from..to with *)
(*    `to` exclusive, both shifted by one, so to - from is the source's.   *)
(*  - i64 is modelled as a two's-complement integer of IntBits bits and    *)
(*    f64 as a binary float with a MantBits-bit significand and unbounded  *)
(*    exponent (plus NaN and the infinities); INTEGRAL_LIMIT = 2^53        *)
(*    becomes 2^MantBits.  The sign of a float zero is not modelled.       *)
(*  - Arithmetic overflow of i64 is decided by the build: a build with     *)
(*    overflow checks aborts, one without wraps.  `build` is an input.     *)
(***************************************************************************)
EXTENDS Integers, Sequences, FiniteSets, TLC

(* ------------------------------------------------------------------ *)
(* Tokens (MathValue)                                                 *)
(* ------------------------------------------------------------------ *)

MATH_CHARS ==
    {"+", "-", "u2212", "*", "u00D7", "u00B7", "/", "u2215", "u2044", "u00F7",
     "(", ")", "%", "u27CC", "!", "~", "^", "&", "|", "u226A", "<", ">", "u226B"}

Name(s)                == [k |-> "Name", s |-> s]
Operator(c)            == [k |-> "Operator", c |-> c]
Operation(c, o1, o2)   == [k |-> "Operation", c |-> c, o1 |-> o1, o2 |-> o2]
UnaryOperation(c, o)   == [k |-> "UnaryOperation", c |-> c, o |-> o]
ParenOpen(o)           == [k |-> "ParenOpen", o |-> o]
ParenClose(n)          == [k |-> "ParenClose", n |-> n]
TrailingError          == [k |-> "TrailingError"]

IsOperator(t, c) == t.k = "Operator" /\ t.c = c

(* ------------------------------------------------------------------ *)
(* Errors (MathParseErrors) and results                               *)
(* ------------------------------------------------------------------ *)

Err0(e)        == [t |-> "Err", e |-> e]
ErrC(e, c)     == [t |-> "Err", e |-> e, c |-> c]
ErrS(e, s)     == [t |-> "Err", e |-> e, s |-> s]
ErrF(e, f)     == [t |-> "Err", e |-> e, f |-> f]
ErrFC(e, f, c) == [t |-> "Err", e |-> e, f |-> f, c |-> c]
ErrH(c, hint)  == [t |-> "Err", e |-> "BadOperatorHint", c |-> c, hint |-> hint]

UnclosedParenthesis   == Err0("UnclosedParenthesis")
UnopenedParenthesis   == Err0("UnopenedParenthesis")
EmptyLine             == Err0("EmptyLine")
TrailingOperator      == Err0("TrailingOperator")
UnexpectedZero        == Err0("UnexpectedZero")
UnexpectedNegative    == Err0("UnexpectedNegative")
UnbalancedStack       == Err0("UnbalancedStack")
MathParseInternalBug  == Err0("MathParseInternalBug")
MisplacedOperator(c)  == ErrC("MisplacedOperator", c)
InvalidRPNOperator(c) == ErrC("InvalidRPNOperator", c)
InvalidNumber(s)      == ErrS("InvalidNumber", s)
IntConversion(f)      == ErrF("IntConversion", f)
ReturnFloatExpectedInt(f) == ErrF("ReturnFloatExpectedInt", f)
BinaryOpOnFloat(f, c) == ErrFC("BinaryOpOnFloat", f, c)

(* An abort of the process (a Rust panic) and a call that never returns. *)
Panic == [t |-> "Panic"]
Hang  == [t |-> "Hang"]

IsErr(r)  == r.t = "Err"
IsFail(r) == r.t \in {"Err", "Panic", "Hang"}

(* ------------------------------------------------------------------ *)
(* math_token                                                         *)
(* ------------------------------------------------------------------ *)

RECURSIVE token_base_loop(_, _, _, _)
token_base_loop(s, i, new_name_index, ret) ==
    IF i > Len(s)
    THEN (IF new_name_index # 0
          THEN Append(ret, Name(SubSeq(s, new_name_index, Len(s))))
          ELSE ret) \o <<TrailingError>>
    ELSE IF s[i] \in MATH_CHARS
    THEN token_base_loop(s, i + 1, 0,
            Append(IF new_name_index # 0
                   THEN Append(ret, Name(SubSeq(s, new_name_index, i - 1)))
                   ELSE ret,
                   Operator(s[i])))
    ELSE token_base_loop(s, i + 1,
            IF new_name_index = 0 THEN i ELSE new_name_index, ret)

token_base(s) == token_base_loop(s, 1, 0, <<>>)

ComplexOf(c) == CASE c = "/" -> "u27CC"
                  [] c = "<" -> "u226A"
                  [] c = ">" -> "u226B"
                  [] OTHER   -> ""

RECURSIVE token_complex_loop(_, _)
token_complex_loop(line, i) ==
    IF i > Len(line) THEN line
    ELSE IF /\ line[i - 1].k = "Operator"
            /\ line[i].k = "Operator"
            /\ line[i - 1].c = line[i].c
            /\ ComplexOf(line[i].c) # ""
    THEN token_complex_loop(
            [line EXCEPT ![i - 1] = Operator(ComplexOf(line[i].c)),
                         ![i]     = ParenOpen(1)], i + 1)
    ELSE token_complex_loop(line, i + 1)

token_complex(line) == token_complex_loop(line, 2)

math_token(s) == token_complex(token_base(s))

(* ------------------------------------------------------------------ *)
(* math_parse_tokens: unary_parse                                     *)
(* ------------------------------------------------------------------ *)

OkLine(line) == [t |-> "Ok", line |-> line]

UnaryOf_minus_sign_as_plus(c) ==
    CASE c \in {"+", "u2212"} -> "+"
      [] c = "-"              -> "-"
      [] c \in {"!", "~"}     -> "!"
      [] OTHER                -> ""

UnaryOf(c) == CASE c = "+"                -> "+"
                [] c \in {"-", "u2212"}   -> "-"
                [] c \in {"!", "~"}       -> "!"
                [] OTHER                  -> ""

RECURSIVE unary_parse_loop(_, _, _)
unary_parse_loop(line, i, previous_operator) ==
    IF i > Len(line) THEN OkLine(line)
    ELSE LET t == line[i] IN
      CASE t.k = "Operator" /\ UnaryOf(t.c) # "" ->
             unary_parse_loop(
                IF previous_operator
                THEN [line EXCEPT ![i] = UnaryOperation(UnaryOf(t.c), 1)]
                ELSE line, i + 1, TRUE)
        [] t.k = "Operator" /\ t.c = "(" -> unary_parse_loop(line, i + 1, TRUE)
        [] t.k = "Operator" /\ t.c = ")" -> unary_parse_loop(line, i + 1, FALSE)
        [] t.k = "Operator" /\ UnaryOf(t.c) = "" /\ t.c \notin {"(", ")"} ->
             IF previous_operator THEN MisplacedOperator(t.c)
             ELSE unary_parse_loop(line, i + 1, TRUE)
        [] t.k = "Name"          -> unary_parse_loop(line, i + 1, FALSE)
        [] t.k = "ParenOpen"     -> unary_parse_loop(line, i + 1, FALSE)
        [] t.k = "TrailingError" -> unary_parse_loop(line, i + 1, previous_operator)
        [] OTHER                 -> MathParseInternalBug

unary_parse(line) == unary_parse_loop(line, 1, TRUE)

(* ------------------------------------------------------------------ *)
(* math_parse_tokens: all_but_paren_parse                             *)
(* ------------------------------------------------------------------ *)

BlockSolving(from, to) == [kind |-> "BlockSolving", from |-> from, to |-> to]
OperatorReading(from, to, index) ==
    [kind |-> "OperatorReading", from |-> from, to |-> to, index |-> index]

TierOr    == {"|"}
TierXor   == {"^"}
TierAnd   == {"&"}
TierShift == {"u226A", "u226B", "<", ">"}
TierAdd   == {"+", "-", "u2212"}
TierMul   == {"/", "u2215", "u2044", "u00F7", "*", "u00D7", "u00B7", "%", "u27CC"}
TiersMulLooser == <<TierOr, TierXor, TierAnd, TierShift, TierMul, TierAdd>>
Tiers     == <<TierOr, TierXor, TierAnd, TierShift, TierAdd, TierMul>>

(* The same scan keeping the leftmost operator found instead of the first. *)
RECURSIVE parse_op_scan_keep(_, _, _, _, _)
parse_op_scan_keep(line, ops, from, index, best) ==
    IF index < from + 1 THEN best
    ELSE LET t == line[index] IN
      CASE t.k = "Operator" ->
             parse_op_scan_keep(line, ops, from, index - 1,
                                IF t.c \in ops THEN index ELSE best)
        [] t.k = "ParenClose" ->
             IF index - t.n < 1 THEN -1
             ELSE parse_op_scan_keep(line, ops, from, index - t.n, best)
        [] OTHER -> parse_op_scan_keep(line, ops, from, index - 1, best)

parse_op_scan_leftmost(line, ops, from, index) ==
    parse_op_scan_keep(line, ops, from, index, 0)

(* The right-to-left scan of parse_op: the index of the operator found, 0  *)
(* when there is none, -1 when the index underflows.                      *)
RECURSIVE parse_op_scan(_, _, _, _)
parse_op_scan(line, ops, from, index) ==
    IF index < from + 1 THEN 0
    ELSE LET t == line[index] IN
      CASE t.k = "Operator" ->
             IF t.c \in ops THEN index
             ELSE parse_op_scan(line, ops, from, index - 1)
        [] t.k = "ParenClose" ->
             IF index - t.n < 1 THEN -1
             ELSE parse_op_scan(line, ops, from, index - t.n)
        [] OTHER -> parse_op_scan(line, ops, from, index - 1)

(* parse_op: "Err", "Panic", or whether the block is settled, with the    *)
(* index of the operator to split at (0: none).                           *)
parse_op(line, ops, from, to) ==
    CASE to - from = 0 -> EmptyLine
      [] to - from = 1 ->
           IF line[from].k = "TrailingError" THEN EmptyLine
           ELSE [t |-> "Ok", done |-> TRUE, index |-> 0]
      [] OTHER ->
           LET found(index) ==
                   IF index = -1 THEN Panic
                   ELSE [t |-> "Ok", done |-> index # 0, index |-> index]
           IN found(parse_op_scan(line, ops, from, to - 2))

make_tasks_from_op(from, to, operator_index, tasks_stack) ==
    tasks_stack \o <<OperatorReading(from, to, operator_index),
                     BlockSolving(from, operator_index),
                     BlockSolving(operator_index + 1, to)>>

RECURSIVE solve_block_tiers(_, _, _, _, _)
solve_block_tiers(line, from, to, tasks_stack, tier) ==
    LET tried(r) ==
            IF r.t # "Ok" THEN r
            ELSE IF r.done
            THEN [t |-> "Ok",
                  stack |-> IF r.index # 0
                            THEN make_tasks_from_op(from, to, r.index, tasks_stack)
                            ELSE tasks_stack]
            ELSE IF tier = Len(Tiers) THEN [t |-> "Ok", stack |-> tasks_stack]
            ELSE solve_block_tiers(line, from, to, tasks_stack, tier + 1)
    IN tried(parse_op(line, Tiers[tier], from, to))

solve_block(line, from, to, tasks_stack) ==
    solve_block_tiers(line, from, to, tasks_stack, 1)

make_op(line, from, operator_index) ==
    IF line[operator_index].k # "Operator" THEN MathParseInternalBug
    ELSE
      LET op              == line[operator_index].c
          operator_offset == operator_index - from
          operation       == Operation(op, operator_offset, operator_offset + 1)
          h               == line[from]
          part_1_header   ==
            CASE h.k = "ParenOpen" -> ParenOpen(h.o - operator_offset)
              [] h.k = "Operation" ->
                   Operation(h.c, h.o1 - operator_offset, h.o2 - operator_offset)
              [] h.k = "UnaryOperation" ->
                   UnaryOperation(h.c, h.o - operator_offset)
              [] OTHER -> h
      IN OkLine([line EXCEPT ![from] = operation,
                             ![operator_index] = part_1_header])

RECURSIVE solve_tasks(_, _)
solve_tasks(line, tasks_stack) ==
    IF Len(tasks_stack) = 0 THEN OkLine(line)
    ELSE
      LET task == tasks_stack[Len(tasks_stack)]
          rest == SubSeq(tasks_stack, 1, Len(tasks_stack) - 1)
          read(r)  == IF r.t # "Ok" THEN r ELSE solve_tasks(r.line, rest)
          split(r) == IF r.t # "Ok" THEN r ELSE solve_tasks(line, r.stack)
      IN IF task.kind = "OperatorReading"
         THEN read(make_op(line, task.from, task.index))
         ELSE split(solve_block(line, task.from, task.to, rest))

all_but_paren_parse(line) ==
    solve_tasks(line, <<BlockSolving(1, Len(line) + 1)>>)

(* ------------------------------------------------------------------ *)
(* math_parse_tokens: paren_parse                                     *)
(* ------------------------------------------------------------------ *)

(* single_paren_parse: the scan for the first ")" and the last "(" before *)
(* it.  Returns the line with that group folded (again TRUE), the line    *)
(* unchanged when no parenthesis is left (again FALSE), or the error.     *)
(* The scan stepping over a ")" that no "(" precedes. *)
RECURSIVE single_paren_scan_skip_unopened(_, _, _)
single_paren_scan_skip_unopened(line, i, maybe_paren_open_index) ==
    IF i > Len(line)
    THEN IF maybe_paren_open_index # 0 THEN UnclosedParenthesis
         ELSE [t |-> "Ok", line |-> line, again |-> FALSE]
    ELSE IF IsOperator(line[i], "(")
    THEN single_paren_scan_skip_unopened(line, i + 1, i)
    ELSE IF IsOperator(line[i], ")") /\ maybe_paren_open_index # 0
    THEN LET paren_open_index   == maybe_paren_open_index
             size_between_paren == i - paren_open_index - 1
             used_slice == SubSeq(line, paren_open_index + 1, i - 1)
             spliced(r) ==
                 IF r.t # "Ok" THEN r
                 ELSE [t |-> "Ok", again |-> TRUE,
                       line |-> SubSeq(line, 1, paren_open_index - 1)
                                \o <<ParenOpen(1)>> \o r.line
                                \o <<ParenClose(size_between_paren)>>
                                \o SubSeq(line, i + 1, Len(line))]
         IN spliced(all_but_paren_parse(used_slice))
    ELSE single_paren_scan_skip_unopened(line, i + 1, maybe_paren_open_index)

RECURSIVE single_paren_scan(_, _, _)
single_paren_scan(line, i, maybe_paren_open_index) ==
    IF i > Len(line)
    THEN IF maybe_paren_open_index # 0 THEN UnclosedParenthesis
         ELSE [t |-> "Ok", line |-> line, again |-> FALSE]
    ELSE IF IsOperator(line[i], "(") THEN single_paren_scan(line, i + 1, i)
    ELSE IF IsOperator(line[i], ")")
    THEN IF maybe_paren_open_index = 0 THEN UnopenedParenthesis
         ELSE
           LET paren_open_index   == maybe_paren_open_index
               size_between_paren == i - paren_open_index - 1
               used_slice == SubSeq(line, paren_open_index + 1, i - 1)
               spliced(r) ==
                   IF r.t # "Ok" THEN r
                   ELSE [t |-> "Ok", again |-> TRUE,
                         line |-> SubSeq(line, 1, paren_open_index - 1)
                                  \o <<ParenOpen(1)>> \o r.line
                                  \o <<ParenClose(size_between_paren)>>
                                  \o SubSeq(line, i + 1, Len(line))]
           IN spliced(all_but_paren_parse(used_slice))
    ELSE single_paren_scan(line, i + 1, maybe_paren_open_index)

single_paren_parse(line) == single_paren_scan(line, 1, 0)

RECURSIVE paren_parse(_)
paren_parse(line) ==
    LET while(r) == IF r.t # "Ok" THEN r
                    ELSE IF r.again THEN paren_parse(r.line)
                    ELSE OkLine(r.line)
    IN while(single_paren_parse(line))

math_parse_tokens(line) ==
    LET third(p)  == IF p.t # "Ok" THEN p ELSE all_but_paren_parse(p.line)
        second(u) == IF u.t # "Ok" THEN u ELSE third(paren_parse(u.line))
    IN second(unary_parse(line))

math_parse(expression) == math_parse_tokens(math_token(expression))

(* ------------------------------------------------------------------ *)
(* rpn.rs: the walk from the positional array to the RPN list         *)
(* ------------------------------------------------------------------ *)

RpnName(s)   == [k |-> "Name", s |-> s]
Unary(op)    == [k |-> "Unary", op |-> op]
Binary(op)   == [k |-> "Binary", op |-> op]

Solve(index)        == [kind |-> "Solve", index |-> index]
OperatorStep(index) == [kind |-> "OperatorStep", index |-> index]

OkOp(op) == [t |-> "Ok", op |-> op]

(* from_char taking a lone angle bracket for the shift. *)
BinaryOp_from_char_lenient(c) ==
    CASE c \in {"*", "u00D7", "u00B7"}          -> OkOp("Multiplication")
      [] c \in {"/", "u2215", "u2044", "u00F7"} -> OkOp("Division")
      [] c = "+"                                -> OkOp("Addition")
      [] c \in {"-", "u2212"}                   -> OkOp("Subtraction")
      [] c = "%"                                -> OkOp("Reminder")
      [] c = "u27CC"                            -> OkOp("IntegerDivision")
      [] c = "|"                                -> OkOp("BitwiseOr")
      [] c = "&"                                -> OkOp("BitwiseAnd")
      [] c = "^"                                -> OkOp("BitwiseXor")
      [] c \in {"u226A", "<"}                   -> OkOp("ShiftLeft")
      [] c \in {"u226B", ">"}                   -> OkOp("ShiftRight")
      [] OTHER                                  -> MathParseInternalBug

BinaryOp_from_char(c) ==
    CASE c \in {"*", "u00D7", "u00B7"}          -> OkOp("Multiplication")
      [] c \in {"/", "u2215", "u2044", "u00F7"} -> OkOp("Division")
      [] c = "+"                                -> OkOp("Addition")
      [] c \in {"-", "u2212"}                   -> OkOp("Subtraction")
      [] c = "%"                                -> OkOp("Reminder")
      [] c = "u27CC"                            -> OkOp("IntegerDivision")
      [] c = "|"                                -> OkOp("BitwiseOr")
      [] c = "&"                                -> OkOp("BitwiseAnd")
      [] c = "^"                                -> OkOp("BitwiseXor")
      [] c = "u226A"                            -> OkOp("ShiftLeft")
      [] c = "u226B"                            -> OkOp("ShiftRight")
      [] c = "<"                                -> ErrH("<", "<<")
      [] c = ">"                                -> ErrH(">", ">>")
      [] OTHER                                  -> MathParseInternalBug

(* read_operator: [t |-> "Ok", rpn |-> instruction] or the error. *)
read_operator(line, index) ==
    LET t == line[index] IN
    CASE t.k = "Operation" ->
           LET binary(r) == IF r.t # "Ok" THEN r
                            ELSE [t |-> "Ok", rpn |-> Binary(r.op)]
           IN binary(BinaryOp_from_char(t.c))
      [] t.k = "UnaryOperation" ->
           (CASE t.c = "!" -> [t |-> "Ok", rpn |-> Unary("Not")]
              [] t.c = "-" -> [t |-> "Ok", rpn |-> Unary("Minus")]
              [] t.c = "+" -> [t |-> "Ok", rpn |-> Unary("Plus")]
              [] OTHER     -> MathParseInternalBug)
      [] OTHER -> MathParseInternalBug

(* add_index_offset: i_to_u fails on a negative index of the source, that *)
(* is on an index below 1 here.                                           *)
add_index_offset(index, offset) ==
    IF index + offset < 1 THEN MathParseInternalBug
    ELSE [t |-> "Ok", index |-> index + offset]

(* One rpn_run_step on (rpn_steps, rpn_ret): the new pair, or the failure. *)
(* line[index] beyond the array aborts.                                    *)
RpnState(steps, ret) == [t |-> "Ok", steps |-> steps, ret |-> ret]

rpn_solve_right_first(line, rest, ret, index) ==
    IF index > Len(line) THEN Panic
    ELSE LET t == line[index] IN
      CASE t.k = "Name" -> RpnState(rest, Append(ret, RpnName(t.s)))
        [] t.k = "Operation" ->
             LET i2 == add_index_offset(index, t.o2)
                 i1 == add_index_offset(index, t.o1)
             IN IF i2.t # "Ok" THEN i2
                ELSE IF i1.t # "Ok" THEN i1
                ELSE RpnState(rest \o <<OperatorStep(index), Solve(i1.index),
                                        Solve(i2.index)>>, ret)
        [] t.k = "UnaryOperation" ->
             LET i1 == add_index_offset(index, t.o) IN
             IF i1.t # "Ok" THEN i1
             ELSE RpnState(rest \o <<OperatorStep(index), Solve(i1.index)>>, ret)
        [] t.k = "ParenOpen" ->
             LET i1 == add_index_offset(index, t.o) IN
             IF i1.t # "Ok" THEN i1
             ELSE RpnState(Append(rest, Solve(i1.index)), ret)
        [] t.k = "TrailingError" -> TrailingOperator
        [] OTHER -> MathParseInternalBug

rpn_solve(line, rest, ret, index) ==
    IF index > Len(line) THEN Panic
    ELSE LET t == line[index] IN
      CASE t.k = "Name" -> RpnState(rest, Append(ret, RpnName(t.s)))
        [] t.k = "Operation" ->
             LET i2 == add_index_offset(index, t.o2)
                 i1 == add_index_offset(index, t.o1)
             IN IF i2.t # "Ok" THEN i2
                ELSE IF i1.t # "Ok" THEN i1
                ELSE RpnState(rest \o <<OperatorStep(index), Solve(i2.index),
                                        Solve(i1.index)>>, ret)
        [] t.k = "UnaryOperation" ->
             LET i1 == add_index_offset(index, t.o) IN
             IF i1.t # "Ok" THEN i1
             ELSE RpnState(rest \o <<OperatorStep(index), Solve(i1.index)>>, ret)
        [] t.k = "ParenOpen" ->
             LET i1 == add_index_offset(index, t.o) IN
             IF i1.t # "Ok" THEN i1
             ELSE RpnState(Append(rest, Solve(i1.index)), ret)
        [] t.k = "TrailingError" -> TrailingOperator
        [] OTHER -> MathParseInternalBug

rpn_operator(line, rest, ret, index) ==
    LET push(to_push) == IF to_push.t # "Ok" THEN to_push
                         ELSE RpnState(rest, Append(ret, to_push.rpn))
    IN push(read_operator(line, index))

rpn_run_step(line, rpn_steps, rpn_ret) ==
    IF Len(rpn_steps) = 0 THEN MathParseInternalBug
    ELSE
      LET step == rpn_steps[Len(rpn_steps)]
          rest == SubSeq(rpn_steps, 1, Len(rpn_steps) - 1)
      IN IF step.kind = "Solve"
         THEN rpn_solve(line, rest, rpn_ret, step.index)
         ELSE rpn_operator(line, rest, rpn_ret, step.index)

(* rpn::parse_rpn as a function.  A step that gives back the state it     *)
(* started from repeats for ever: the call never returns.  The fuel only  *)
(* guards the recursion of this definition; NoFuel marks its exhaustion.  *)
NoFuel == [t |-> "NoFuel"]

RECURSIVE rpn_loop(_, _, _, _)
rpn_loop(line, rpn_steps, rpn_ret, fuel) ==
    IF Len(rpn_steps) = 0 THEN [t |-> "Ok", rpn |-> rpn_ret]
    ELSE IF fuel = 0 THEN NoFuel
    ELSE LET next(r) ==
                 IF r.t # "Ok" THEN r
                 ELSE IF r.steps = rpn_steps /\ r.ret = rpn_ret THEN Hang
                 ELSE rpn_loop(line, r.steps, r.ret, fuel - 1)
         IN next(rpn_run_step(line, rpn_steps, rpn_ret))

rpn_parse_rpn(line) == rpn_loop(line, <<Solve(1)>>, <<>>, 4 * Len(line) + 4)

(* MathParse::parse *)
MathParse_parse(expression) ==
    LET internal(parsed_tree) ==
            IF parsed_tree.t # "Ok" THEN parsed_tree
            ELSE rpn_parse_rpn(parsed_tree.line)
    IN internal(math_parse(expression))

(* ------------------------------------------------------------------ *)
(* Number: IntV(i64) | Float(f64)                                      *)
(* ------------------------------------------------------------------ *)

IntBits  == 8
MantBits == 5

Pow2(k)  == 2 ^ k
MinInt   == -Pow2(IntBits - 1)
MaxInt   == Pow2(IntBits - 1) - 1
InInt(v) == MinInt <= v /\ v <= MaxInt
Wrap(v)  == ((v - MinInt) % Pow2(IntBits)) + MinInt

Builds == {"checked", "unchecked"}

Abs(v) == IF v < 0 THEN -v ELSE v
Sgn(v) == IF v < 0 THEN -1 ELSE IF v > 0 THEN 1 ELSE 0

IntV(v)  == [t |-> "Int", v |-> v]
(* A finite float is m * 2^x with m odd, or m = 0 and x = 0. *)
Fin(m, x) == [t |-> "Float", cls |-> "fin", m |-> m, x |-> x]
NaN       == [t |-> "Float", cls |-> "nan", m |-> 0, x |-> 0]
PInf      == [t |-> "Float", cls |-> "inf", m |-> 1, x |-> 0]
NInf      == [t |-> "Float", cls |-> "inf", m |-> -1, x |-> 0]
FZero     == Fin(0, 0)

IsInt(n)   == n.t = "Int"
IsFloat(n) == n.t = "Float"
IsNum(n)   == n.t \in {"Int", "Float"}

RECURSIVE FNorm(_, _)
FNorm(m, x) == IF m = 0 THEN FZero
               ELSE IF m % 2 = 0 THEN FNorm(m \div 2, x + 1)
               ELSE Fin(m, x)

(* The exponent e with 2^(MantBits-1) <= an/(d*2^e) < 2^MantBits. *)
RECURSIVE FindExp(_, _, _)
FindExp(an, d, e) ==
    LET fit(num, den) ==
            IF num >= Pow2(MantBits) * den THEN FindExp(an, d, e + 1)
            ELSE IF num < Pow2(MantBits - 1) * den THEN FindExp(an, d, e - 1)
            ELSE e
    IN fit(IF e >= 0 THEN an ELSE an * Pow2(-e),
           IF e >= 0 THEN d * Pow2(e) ELSE d)

(* The float nearest to the rational n/d (d > 0), ties to even. *)
RoundRat(n, d) ==
    IF n = 0 THEN FZero
    ELSE
      LET nearest(q, r2, den) ==
              IF r2 > den \/ (r2 = den /\ q % 2 = 1) THEN q + 1 ELSE q
          scaled(num, den, e) ==
              FNorm(Sgn(n) * nearest(num \div den, 2 * (num % den), den), e)
          at(an, e) == scaled(IF e >= 0 THEN an ELSE an * Pow2(-e),
                              IF e >= 0 THEN d * Pow2(e) ELSE d, e)
          of(an) == at(an, FindExp(an, d, 0))
      IN of(Abs(n))

(* The numerator and denominator of a finite float. *)
FNum(f) == IF f.x >= 0 THEN f.m * Pow2(f.x) ELSE f.m
FDen(f) == IF f.x >= 0 THEN 1 ELSE Pow2(-f.x)

FSign(f) == Sgn(f.m)

i_to_f(i) == RoundRat(i, 1)

FAdd(a, b) ==
    CASE a.cls = "nan" \/ b.cls = "nan" -> NaN
      [] a.cls = "inf" /\ b.cls = "inf" -> IF a.m = b.m THEN a ELSE NaN
      [] a.cls = "inf" -> a
      [] b.cls = "inf" -> b
      [] OTHER -> RoundRat(FNum(a) * FDen(b) + FNum(b) * FDen(a), FDen(a) * FDen(b))

FNeg(a) == IF a.cls = "nan" THEN NaN ELSE [a EXCEPT !.m = -a.m]

FSub(a, b) == FAdd(a, FNeg(b))

FMul(a, b) ==
    CASE a.cls = "nan" \/ b.cls = "nan" -> NaN
      [] a.cls = "inf" \/ b.cls = "inf" ->
           IF FSign(a) * FSign(b) = 0 THEN NaN
           ELSE IF FSign(a) * FSign(b) > 0 THEN PInf ELSE NInf
      [] OTHER -> RoundRat(FNum(a) * FNum(b), FDen(a) * FDen(b))

FDiv(a, b) ==
    CASE a.cls = "nan" \/ b.cls = "nan" -> NaN
      [] a.cls = "inf" /\ b.cls = "inf" -> NaN
      [] a.cls = "inf" -> IF FSign(a) * FSign(b) >= 0 THEN PInf ELSE NInf
      [] b.cls = "inf" -> FZero
      [] b.m = 0 -> IF a.m = 0 THEN NaN ELSE IF a.m > 0 THEN PInf ELSE NInf
      [] OTHER -> RoundRat(Sgn(FNum(b)) * FNum(a) * FDen(b), Abs(FNum(b)) * FDen(a))

(* fmod: the result has the sign of the dividend and is exact. *)
FRem(a, b) ==
    CASE a.cls = "nan" \/ b.cls = "nan" -> NaN
      [] a.cls = "inf" -> NaN
      [] b.cls = "inf" -> a
      [] b.m = 0 -> NaN
      [] OTHER ->
           LET fmod(A, B) == RoundRat(Sgn(A) * (Abs(A) % B), FDen(a) * FDen(b))
           IN fmod(FNum(a) * FDen(b), Abs(FNum(b) * FDen(a)))

FLess(a, b) ==
    CASE a.cls = "nan" \/ b.cls = "nan" -> FALSE
      [] a.cls = "inf" /\ b.cls = "inf" -> a.m < b.m
      [] a.cls = "inf" -> a.m < 0
      [] b.cls = "inf" -> b.m > 0
      [] OTHER -> FNum(a) * FDen(b) < FNum(b) * FDen(a)

FEq(a, b) == a.cls # "nan" /\ b.cls # "nan" /\ a = b

(* f64::round: to the nearest integer, halves away from zero. *)
FRound(a) ==
    IF a.cls # "fin" \/ a.x >= 0 THEN a
    ELSE LET half_up(d) == FNorm(Sgn(a.m) * ((2 * Abs(a.m) + d) \div (2 * d)), 0)
         IN half_up(Pow2(-a.x))

(* number_conversion.rs *)
INTEGRAL_LIMIT == FNorm(Pow2(MantBits), 0)

(* `f as i64` of a finite integral float: the cast saturates. *)
FCast(f) ==
    LET saturate(v) == IF v > MaxInt THEN MaxInt
                       ELSE IF v < MinInt THEN MinInt ELSE v
    IN saturate(FNum(f))

f_to_i(f) ==
    IF f.cls = "nan" THEN IntConversion(f)
    ELSE LET limited(r) ==
                 IF FLess(INTEGRAL_LIMIT, r) THEN IntConversion(r)
                 ELSE IF FLess(r, FNeg(INTEGRAL_LIMIT)) THEN IntConversion(r)
                 ELSE [t |-> "Ok", v |-> FCast(r)]
         IN limited(FRound(f))

f_to_i_strict(f) ==
    LET strict(convert_loose) ==
            IF convert_loose.t # "Ok" THEN convert_loose
            ELSE IF FEq(i_to_f(convert_loose.v), f) THEN convert_loose
            ELSE ReturnFloatExpectedInt(f)
    IN strict(f_to_i(f))

(* An i64 result: checked builds abort on overflow, unchecked ones wrap. *)
IntResult(build, v) ==
    IF InInt(v) THEN IntV(v)
    ELSE IF build = "checked" THEN Panic ELSE IntV(Wrap(v))

NumAdd(build, a, b) ==
    CASE IsInt(a) /\ IsInt(b)   -> IntResult(build, a.v + b.v)
      [] IsFloat(a) /\ IsInt(b) -> FAdd(a, i_to_f(b.v))
      [] IsInt(a) /\ IsFloat(b) -> FAdd(i_to_f(a.v), b)
      [] OTHER                  -> FAdd(a, b)

NumSub(build, a, b) ==
    CASE IsInt(a) /\ IsInt(b)   -> IntResult(build, a.v - b.v)
      [] IsFloat(a) /\ IsInt(b) -> FSub(a, i_to_f(b.v))
      [] IsInt(a) /\ IsFloat(b) -> FSub(i_to_f(a.v), b)
      [] OTHER                  -> FSub(a, b)

NumMul(build, a, b) ==
    CASE IsInt(a) /\ IsInt(b)   -> IntResult(build, a.v * b.v)
      [] IsFloat(a) /\ IsInt(b) -> FMul(a, i_to_f(b.v))
      [] IsInt(a) /\ IsFloat(b) -> FMul(i_to_f(a.v), b)
      [] OTHER                  -> FMul(a, b)

is_zero_int_only(n) == IsInt(n) /\ n.v = 0
is_zero(n)     == IF IsInt(n) THEN n.v = 0 ELSE n.cls = "fin" /\ n.m = 0
is_negative(n) == IF IsInt(n) THEN n.v < 0 ELSE n.cls # "nan" /\ n.m < 0

OkUnit == [t |-> "Ok"]
err_on_zero(n)     == IF is_zero(n) THEN UnexpectedZero ELSE OkUnit
err_on_negative(n) == IF is_negative(n) THEN UnexpectedNegative ELSE OkUnit
err_on_float(n, op) == IF IsFloat(n) THEN BinaryOpOnFloat(n, op) ELSE OkUnit

AsF(n) == IF IsInt(n) THEN i_to_f(n.v) ELSE n

NumDiv(a, b) ==
    IF err_on_zero(b).t # "Ok" THEN err_on_zero(b)
    ELSE FDiv(AsF(a), AsF(b))

(* The remainder of i64: truncated, and an abort for MIN % -1. *)
IntRem(s, o) == IF s = MinInt /\ o = -1 THEN Panic
                ELSE IntV(Sgn(s) * (Abs(s) % Abs(o)))

NumRem(a, b) ==
    IF err_on_zero(b).t # "Ok" THEN err_on_zero(b)
    ELSE IF IsInt(a) /\ IsInt(b) THEN IntRem(a.v, b.v)
    ELSE FRem(AsF(a), AsF(b))

NumNot(a) == IF IsInt(a) THEN IntV(-a.v - 1) ELSE BinaryOpOnFloat(a, "!")

(* Bitwise operators on the two's-complement bits. *)
RECURSIVE BitsOp(_, _, _, _)
BitsOp(op, ua, ub, n) ==
    IF n = 0 THEN 0
    ELSE LET ba == ua % 2
             bb == ub % 2
             b  == CASE op = "&" -> IF ba = 1 /\ bb = 1 THEN 1 ELSE 0
                     [] op = "|" -> IF ba = 1 \/ bb = 1 THEN 1 ELSE 0
                     [] OTHER    -> IF ba # bb THEN 1 ELSE 0
         IN b + 2 * BitsOp(op, ua \div 2, ub \div 2, n - 1)

Unsigned(v) == IF v < 0 THEN v + Pow2(IntBits) ELSE v

IntBitwise(op, s, o) == IntV(Wrap(BitsOp(op, Unsigned(s), Unsigned(o), IntBits)))

NumBitwise_right_first(op, a, b) ==
    IF err_on_float(b, op).t # "Ok" THEN err_on_float(b, op)
    ELSE IF err_on_float(a, op).t # "Ok" THEN err_on_float(a, op)
    ELSE IntBitwise(op, a.v, b.v)

NumBitwise(op, a, b) ==
    IF err_on_float(a, op).t # "Ok" THEN err_on_float(a, op)
    ELSE IF err_on_float(b, op).t # "Ok" THEN err_on_float(b, op)
    ELSE IntBitwise(op, a.v, b.v)

NumBitXor(a, b) == NumBitwise("^", a, b)
NumBitAnd(a, b) == NumBitwise("&", a, b)
NumBitOr(a, b)  == NumBitwise("|", a, b)

(* A shift by the width or more aborts in a checked build and uses the    *)
(* amount modulo the width otherwise.                                     *)
ShiftAmount(build, o) ==
    IF o < IntBits THEN [t |-> "Ok", v |-> o]
    ELSE IF build = "checked" THEN Panic
    ELSE [t |-> "Ok", v |-> o % IntBits]

NumShl(build, a, b) ==
    IF err_on_float(a, "u226A").t # "Ok" THEN err_on_float(a, "u226A")
    ELSE IF err_on_float(b, "u226A").t # "Ok" THEN err_on_float(b, "u226A")
    ELSE IF err_on_negative(b).t # "Ok" THEN err_on_negative(b)
    ELSE LET k == ShiftAmount(build, b.v) IN
         IF k.t # "Ok" THEN k ELSE IntV(Wrap(a.v * Pow2(k.v)))

FloorDiv(s, d) == IF s >= 0 THEN s \div d ELSE -((-s + d - 1) \div d)

NumShr(build, a, b) ==
    IF err_on_float(a, "u226B").t # "Ok" THEN err_on_float(a, "u226B")
    ELSE IF err_on_float(b, "u226B").t # "Ok" THEN err_on_float(b, "u226B")
    ELSE IF err_on_negative(b).t # "Ok" THEN err_on_negative(b)
    ELSE LET k == ShiftAmount(build, b.v) IN
         IF k.t # "Ok" THEN k ELSE IntV(FloorDiv(a.v, Pow2(k.v)))

(* The quotient of i64: truncated; an abort for a zero divisor and for    *)
(* MIN / -1.                                                              *)
IntQuot(s, o) ==
    IF o = 0 THEN Panic
    ELSE IF s = MinInt /\ o = -1 THEN Panic
    ELSE IntV(Sgn(s) * Sgn(o) * (Abs(s) \div Abs(o)))

integer_div(build, a, b) ==
    IF err_on_zero(b).t # "Ok" THEN err_on_zero(b)
    ELSE LET to_i(n) == IF IsInt(n) THEN [t |-> "Ok", v |-> n.v] ELSE f_to_i(n)
             quotient(s, o) == IF s.t # "Ok" THEN s
                               ELSE IF o.t # "Ok" THEN o
                               ELSE IntQuot(s.v, o.v)
             divide(d) == IF d.t \notin {"Int", "Float"} THEN d
                          ELSE quotient(to_i(d), to_i(b))
             without(r) == IF r.t \notin {"Int", "Float"} THEN r
                           ELSE divide(NumSub(build, a, r))
         IN without(NumRem(a, b))

(* ------------------------------------------------------------------ *)
(* number_from_string                                                 *)
(* ------------------------------------------------------------------ *)

DecDigits == <<"0", "1", "2", "3", "4", "5", "6", "7", "8", "9">>
HexLower  == <<"a", "b", "c", "d", "e", "f">>
HexUpper  == <<"A", "B", "C", "D", "E", "F">>

(* The value of a digit in the radix, -1 when it is none. *)
DigitValue(c, radix) ==
    IF \E i \in 1..10 : DecDigits[i] = c
    THEN (CHOOSE i \in 1..10 : DecDigits[i] = c) - 1
    ELSE IF radix = 16 /\ \E i \in 1..6 : HexLower[i] = c
    THEN 9 + (CHOOSE i \in 1..6 : HexLower[i] = c)
    ELSE IF radix = 16 /\ \E i \in 1..6 : HexUpper[i] = c
    THEN 9 + (CHOOSE i \in 1..6 : HexUpper[i] = c)
    ELSE -1

(* Characters that take more than one byte in UTF-8. *)
TwoByteChars   == {"u00E9", "u00A0"}
ThreeByteChars == {"u20AC"}
len_utf8(c) == IF c \in TwoByteChars THEN 2
               ELSE IF c \in ThreeByteChars THEN 3 ELSE 1

RECURSIVE ByteLen(_)
ByteLen(s) == IF Len(s) = 0 THEN 0 ELSE len_utf8(s[1]) + ByteLen(Tail(s))

(* Whether byte offset 2 of a text of 3 bytes or more is a char boundary. *)
Boundary2(s) == len_utf8(s[1]) = 2 \/ (len_utf8(s[1]) = 1 /\ len_utf8(s[2]) = 1)

(* i64::from_str_radix of a text without sign: the value, or -1 for the   *)
(* parse error (empty, a bad digit, or out of range).                     *)
RECURSIVE from_str_radix_loop(_, _, _, _)
from_str_radix_loop(s, i, radix, acc) ==
    IF i > Len(s) THEN acc
    ELSE LET digit(d) ==
                 IF d = -1 THEN -1
                 ELSE IF acc * radix + d > MaxInt THEN -1
                 ELSE from_str_radix_loop(s, i + 1, radix, acc * radix + d)
         IN digit(DigitValue(s[i], radix))

from_str_radix(s, radix) ==
    IF Len(s) = 0 THEN -1 ELSE from_str_radix_loop(s, 1, radix, 0)

LowerOf(c) == CASE c = "I" -> "i" [] c = "N" -> "n" [] c = "F" -> "f"
                [] c = "A" -> "a" [] c = "T" -> "t" [] c = "Y" -> "y"
                [] OTHER -> c
Lowered(s) == [i \in 1..Len(s) |-> LowerOf(s[i])]

RECURSIVE DigitsValue(_, _, _)
DigitsValue(s, i, acc) ==
    IF i > Len(s) THEN acc
    ELSE IF s[i] = "." THEN DigitsValue(s, i + 1, acc)
    ELSE DigitsValue(s, i + 1, acc * 10 + DigitValue(s[i], 10))

(* str::parse::<f64> of a text made of digits, "." and letters: digits    *)
(* with at most one ".", or inf / infinity / nan in any case.             *)
parse_f64(s) ==
    LET l    == Lowered(s)
        dots == {i \in 1..Len(s) : s[i] = "."}
        digs == {i \in 1..Len(s) : DigitValue(s[i], 10) # -1}
    IN CASE l = <<"n", "a", "n">> -> NaN
         [] l = <<"i", "n", "f">> -> PInf
         [] l = <<"i", "n", "f", "i", "n", "i", "t", "y">> -> PInf
         [] /\ Cardinality(dots) <= 1
            /\ Cardinality(digs) >= 1
            /\ Cardinality(dots) + Cardinality(digs) = Len(s) ->
              LET frac == IF dots = {} THEN 0
                          ELSE Len(s) - (CHOOSE i \in dots : TRUE)
              IN RoundRat(DigitsValue(s, 1, 0), 10 ^ frac)
         [] OTHER -> InvalidNumber(s)

number_from_string(s) ==
    IF ByteLen(s) >= 3 /\ ~Boundary2(s) THEN Panic
    ELSE
      LET hex == ByteLen(s) >= 3 /\ s[1] = "0" /\ s[2] = "x"
          number(converted) == IF converted # -1 THEN IntV(converted)
                               ELSE parse_f64(s)
      IN number(IF hex THEN from_str_radix(SubSeq(s, 3, Len(s)), 16)
                ELSE from_str_radix(s, 10))

(* ------------------------------------------------------------------ *)
(* rpn_stack_manipulation.rs: the generic executor                    *)
(* ------------------------------------------------------------------ *)

OkV(v) == [t |-> "Ok", v |-> v]

(* The stack top is the last element. *)
pop_one(number_stack) ==
    IF Len(number_stack) >= 1
    THEN [t |-> "Ok", v |-> number_stack[Len(number_stack)],
          stack |-> SubSeq(number_stack, 1, Len(number_stack) - 1)]
    ELSE UnbalancedStack

pop_two(number_stack) ==
    IF Len(number_stack) >= 2
    THEN [t |-> "Ok", v1 |-> number_stack[Len(number_stack) - 1],
          v2 |-> number_stack[Len(number_stack)],
          stack |-> SubSeq(number_stack, 1, Len(number_stack) - 2)]
    ELSE UnbalancedStack

OkStack(stack) == [t |-> "Ok", stack |-> stack]

(* ------------------------------------------------------------------ *)
(* solve.rs: the callbacks of the numeric evaluation                  *)
(* ------------------------------------------------------------------ *)

(* A Number or failure as the Result the executor expects. *)
Lift(r) == IF IsNum(r) THEN OkV(r) ELSE r

compute_unary(build, num, op) ==
    Lift(CASE op = "Not"   -> NumNot(num)
           [] op = "Minus" -> NumMul(build, IntV(-1), num)
           [] OTHER        -> num)

compute_binary(build, num_1, num_2, op) ==
    Lift(CASE op = "Multiplication"  -> NumMul(build, num_1, num_2)
           [] op = "Division"        -> NumDiv(num_1, num_2)
           [] op = "IntegerDivision" -> integer_div(build, num_1, num_2)
           [] op = "Reminder"        -> NumRem(num_1, num_2)
           [] op = "Addition"        -> NumAdd(build, num_1, num_2)
           [] op = "Subtraction"     -> NumSub(build, num_1, num_2)
           [] op = "ShiftLeft"       -> NumShl(build, num_1, num_2)
           [] op = "ShiftRight"      -> NumShr(build, num_1, num_2)
           [] op = "BitwiseAnd"      -> NumBitAnd(num_1, num_2)
           [] op = "BitwiseOr"       -> NumBitOr(num_1, num_2)
           [] OTHER                  -> NumBitXor(num_1, num_2))

(* The lookup of a name: None, or Some(replacement text). *)
None       == [some |-> FALSE]
Some(text) == [some |-> TRUE, s |-> text]

(* The lookups handed to math_solve: the closure over the caller's map    *)
(* (no map, or a map of names to replacement texts) and map_to_one.       *)
NoMap      == [kind |-> "None"]
SomeMap(m) == [kind |-> "Some", m |-> m]
MapToOne   == [kind |-> "map_to_one"]

map_function(map, s) ==
    IF map.kind = "Some" /\ s \in DOMAIN map.m THEN Some(map.m[s]) ELSE None

map_to_one(s) == Some(<<"1">>)

lookup(map, s) == IF map = MapToOne THEN map_to_one(s) ELSE map_function(map, s)

(* solve_auto's narrowing of the evaluated Number: Ok(Ok(i)) is written   *)
(* IntV(i) and Ok(Err(f)) is written as the float f.                      *)
auto_of(r) ==
    IF r.t # "Ok" THEN r
    ELSE IF IsInt(r.v) THEN r.v
    ELSE LET narrowed(i) == IF i.t = "Ok" THEN IntV(i.v) ELSE r.v
         IN narrowed(f_to_i_strict(r.v))

RECURSIVE math_solve(_, _, _)

(* The chain of test_read_named_variables: a is b, b is c, c is 2. *)
ChainMap ==
    SomeMap((<<"a">> :> <<"b">>) @@ (<<"b">> :> <<"c">>) @@ (<<"c">> :> <<"2">>))

(* compute solving the replacement with the map of the chain again. *)
compute_chained(build, expression) ==
    LET solve_number(parsed) ==
            IF parsed.t # "Ok" THEN parsed
            ELSE auto_of(math_solve(build, parsed.rpn, ChainMap))
    IN solve_number(MathParse_parse(expression))

(* crate::compute(expression, None): parse, then solve_number(None). *)
compute(build, expression) ==
    LET solve_number(parsed) ==
            IF parsed.t # "Ok" THEN parsed
            ELSE auto_of(math_solve(build, parsed.rpn, NoMap))
    IN solve_number(MathParse_parse(expression))

read_name(build, name, found) ==
    IF found.some THEN compute(build, found.s)
    ELSE number_from_string(name)

(* The name callback math_solve hands to exec_rpn. *)
compute_name(build, map, name) == Lift(read_name(build, name, lookup(map, name)))

(* ------------------------------------------------------------------ *)
(* rpn_stack_manipulation.rs: the executor, with the callbacks of     *)
(* math_solve (compute_name, compute_unary, compute_binary)           *)
(* ------------------------------------------------------------------ *)

execute_unary(build, number_stack, op) ==
    LET p == pop_one(number_stack) IN
    IF p.t # "Ok" THEN p
    ELSE LET push(computed) == IF computed.t # "Ok" THEN computed
                               ELSE OkStack(Append(p.stack, computed.v))
         IN push(compute_unary(build, p.v, op))

execute_binary(build, number_stack, op) ==
    LET p == pop_two(number_stack) IN
    IF p.t # "Ok" THEN p
    ELSE LET push(computed) == IF computed.t # "Ok" THEN computed
                               ELSE OkStack(Append(p.stack, computed.v))
         IN push(compute_binary(build, p.v1, p.v2, op))

exec_rpn_one_action(build, map, number_stack, action) ==
    CASE action.k = "Name" ->
           LET push(v) == IF v.t # "Ok" THEN v
                          ELSE OkStack(Append(number_stack, v.v))
           IN push(compute_name(build, map, action.s))
      [] action.k = "Unary"  -> execute_unary(build, number_stack, action.op)
      [] OTHER               -> execute_binary(build, number_stack, action.op)

(* The for loop going on after an error and returning the last one. *)
RECURSIVE exec_rpn_loop_last_error(_, _, _, _, _)
exec_rpn_loop_last_error(build, map, rpn_actions, i, number_stack) ==
    IF i > Len(rpn_actions) THEN OkStack(number_stack)
    ELSE LET later(r, rest) == IF rest.t # "Ok" THEN rest ELSE r
             next(r) == IF r.t # "Ok"
                        THEN later(r, exec_rpn_loop_last_error(build, map, rpn_actions,
                                                               i + 1, number_stack))
                        ELSE exec_rpn_loop_last_error(build, map, rpn_actions, i + 1, r.stack)
         IN next(exec_rpn_one_action(build, map, number_stack, rpn_actions[i]))

(* The for loop over the actions, from the i-th on: the stack after the   *)
(* last one, or the first error.                                          *)
RECURSIVE exec_rpn_loop(_, _, _, _, _)
exec_rpn_loop(build, map, rpn_actions, i, number_stack) ==
    IF i > Len(rpn_actions) THEN OkStack(number_stack)
    ELSE LET next(r) == IF r.t # "Ok" THEN r
                        ELSE exec_rpn_loop(build, map, rpn_actions, i + 1, r.stack)
         IN next(exec_rpn_one_action(build, map, number_stack, rpn_actions[i]))

(* exec_rpn popping the last value without looking at the stack size. *)
exec_rpn_pop_last(build, map, rpn_actions) ==
    LET result(last) == IF last.t # "Ok" THEN last
                        ELSE IF Len(last.stack) >= 1 THEN OkV(pop_one(last.stack).v)
                        ELSE UnbalancedStack
    IN result(exec_rpn_loop(build, map, rpn_actions, 1, <<>>))

exec_rpn(build, map, rpn_actions) ==
    LET result(last) == IF last.t # "Ok" THEN last
                        ELSE IF Len(last.stack) = 1 THEN OkV(pop_one(last.stack).v)
                        ELSE UnbalancedStack
    IN result(exec_rpn_loop(build, map, rpn_actions, 1, <<>>))

math_solve(build, rpn_actions, map) == exec_rpn(build, map, rpn_actions)

(* ------------------------------------------------------------------ *)
(* lib.rs: MathParse::solve_auto / solve_int / solve_float            *)
(* ------------------------------------------------------------------ *)

solve_auto(build, internal, map) == auto_of(math_solve(build, internal, map))

(* solve_int rounding the float instead of requiring it to be integral. *)
solve_int_rounding(build, internal, map) ==
    LET narrowed(i) == IF i.t = "Ok" THEN IntV(i.v) ELSE i
        match(r) == IF ~IsNum(r) THEN r
                    ELSE IF IsInt(r) THEN r
                    ELSE narrowed(f_to_i(r))
    IN match(solve_auto(build, internal, map))

solve_int(build, internal, map) ==
    LET narrowed(i) == IF i.t = "Ok" THEN IntV(i.v) ELSE i
        match(r) == IF ~IsNum(r) THEN r
                    ELSE IF IsInt(r) THEN r
                    ELSE narrowed(f_to_i_strict(r))
    IN match(solve_auto(build, internal, map))

solve_float(build, internal, map) ==
    LET match(r) == IF ~IsNum(r) THEN r
                    ELSE IF IsInt(r) THEN i_to_f(r.v)
                    ELSE r
    IN match(solve_auto(build, internal, map))

(* ------------------------------------------------------------------ *)
(* parse_rpn.rs: reading an expression written in RPN                 *)
(* ------------------------------------------------------------------ *)

WhiteSpace == {"\t", " ", "\n", "\r", "u00A0"}

(* The words of s: the maximal runs of characters that are not spaces. *)
RECURSIVE split_words_loop(_, _, _, _)
split_words_loop(s, i, word, ret) ==
    IF i > Len(s)
    THEN IF word = <<>> THEN ret ELSE Append(ret, word)
    ELSE IF s[i] \in WhiteSpace
    THEN split_words_loop(s, i + 1, <<>>,
                          IF word = <<>> THEN ret ELSE Append(ret, word))
    ELSE split_words_loop(s, i + 1, Append(word, s[i]), ret)

split_words(s) == split_words_loop(s, 1, <<>>, <<>>)

parse_rpn_name(names) ==
    LET words == split_words(names) IN
    [i \in 1..Len(words) |-> RpnName(words[i])]

(* parse_rpn_operator handing on the error of from_char as it is. *)
parse_rpn_operator_unmapped(c) ==
    LET vec(op) == IF op.t = "Ok" THEN [t |-> "Ok", rpn |-> <<Binary(op.op)>>]
                   ELSE op
    IN vec(BinaryOp_from_char(c))

parse_rpn_operator(c) ==
    LET vec(op) == IF op.t = "Ok" THEN [t |-> "Ok", rpn |-> <<Binary(op.op)>>]
                   ELSE op
        match(from_char) ==
            vec(IF from_char.t = "Ok" THEN from_char
                ELSE IF from_char = MathParseInternalBug THEN InvalidRPNOperator(c)
                ELSE from_char)
    IN match(BinaryOp_from_char(c))

RECURSIVE rpn_parse_tokens_loop(_, _, _)
rpn_parse_tokens_loop(tokens, i, ret) ==
    IF i > Len(tokens) THEN [t |-> "Ok", rpn |-> ret]
    ELSE LET token == tokens[i] IN
         CASE token.k = "Name" ->
                rpn_parse_tokens_loop(tokens, i + 1, ret \o parse_rpn_name(token.s))
           [] token.k = "Operator" ->
                LET pushed(parsed_values) ==
                        IF parsed_values.t # "Ok" THEN parsed_values
                        ELSE rpn_parse_tokens_loop(tokens, i + 1,
                                                   ret \o parsed_values.rpn)
                IN pushed(parse_rpn_operator(token.c))
           [] token.k = "TrailingError" -> rpn_parse_tokens_loop(tokens, i + 1, ret)
           [] token = ParenOpen(1)      -> rpn_parse_tokens_loop(tokens, i + 1, ret)
           [] OTHER -> MathParseInternalBug

rpn_parse_tokens(tokens) == rpn_parse_tokens_loop(tokens, 1, <<>>)

(* Every name is looked up as "1". *)
check_rpn_valid(build, rpn) == math_solve(build, rpn, MapToOne)

MathParse_parse_rpn(build, expression) ==
    LET checked(rpn, valid) == IF valid.t # "Ok" THEN valid ELSE rpn
        parsed(rpn) == IF rpn.t # "Ok" THEN rpn
                       ELSE checked(rpn, check_rpn_valid(build, rpn.rpn))
    IN parsed(rpn_parse_tokens(math_token(expression)))

(* ------------------------------------------------------------------ *)
(* tree.rs and the Display of Tree (lib.rs)                           *)
(* ------------------------------------------------------------------ *)

TreeName(s)                  == [k |-> "Name", s |-> s]
TreeUnary(op, next)          == [k |-> "Unary", op |-> op, next |-> next]
TreeBinary(op, next_1, next_2) ==
    [k |-> "Binary", op |-> op, next_1 |-> next_1, next_2 |-> next_2]

tree_exec_rpn_action(number_stack, action) ==
    CASE action.k = "Name" -> OkStack(Append(number_stack, TreeName(action.s)))
      [] action.k = "Unary" ->
           IF Len(number_stack) < 1 THEN MathParseInternalBug
           ELSE OkStack(Append(SubSeq(number_stack, 1, Len(number_stack) - 1),
                               TreeUnary(action.op, number_stack[Len(number_stack)])))
      [] OTHER ->
           IF Len(number_stack) < 2 THEN MathParseInternalBug
           ELSE OkStack(Append(SubSeq(number_stack, 1, Len(number_stack) - 2),
                               TreeBinary(action.op,
                                          number_stack[Len(number_stack) - 1],
                                          number_stack[Len(number_stack)])))

RECURSIVE parse_to_tree_loop(_, _, _)
parse_to_tree_loop(rpn_actions, i, number_stack) ==
    IF i > Len(rpn_actions) THEN OkStack(number_stack)
    ELSE LET next(r) == IF r.t # "Ok" THEN r
                        ELSE parse_to_tree_loop(rpn_actions, i + 1, r.stack)
         IN next(tree_exec_rpn_action(number_stack, rpn_actions[i]))

parse_to_tree(rpn_actions) ==
    LET result(last) == IF last.t # "Ok" THEN last
                        ELSE IF Len(last.stack) < 1 THEN MathParseInternalBug
                        ELSE OkV(last.stack[Len(last.stack)])
    IN result(parse_to_tree_loop(rpn_actions, 1, <<>>))

UnaryOpDisplay(op) == CASE op = "Not" -> <<"!">> [] op = "Minus" -> <<"-">>
                        [] OTHER -> <<"+">>

BinaryOpDisplay(op) ==
    CASE op = "Multiplication"  -> <<"*">>
      [] op = "Division"        -> <<"/">>
      [] op = "IntegerDivision" -> <<"/", "/">>
      [] op = "Reminder"        -> <<"%">>
      [] op = "Addition"        -> <<"+">>
      [] op = "Subtraction"     -> <<"-">>
      [] op = "ShiftLeft"       -> <<"<", "<">>
      [] op = "ShiftRight"      -> <<">", ">">>
      [] op = "BitwiseAnd"      -> <<"&">>
      [] op = "BitwiseOr"       -> <<"|">>
      [] OTHER                  -> <<"u2295">>

FmtS(s) == [fmt |-> "S", s |-> s]
FmtT(tree) == [fmt |-> "T", tree |-> tree]

(* The loop of fmt: to_format is the stack of what is left to write. *)
RECURSIVE TreeFmtLoop(_, _)
TreeFmtLoop(to_format, f) ==
    IF Len(to_format) = 0 THEN f
    ELSE
      LET top  == to_format[Len(to_format)]
          rest == SubSeq(to_format, 1, Len(to_format) - 1)
      IN CASE top.fmt = "S" -> TreeFmtLoop(rest, f \o top.s)
           [] top.tree.k = "Name" -> TreeFmtLoop(rest, f \o top.tree.s)
           [] top.tree.k = "Unary" ->
                TreeFmtLoop(Append(rest, FmtT(top.tree.next)),
                            f \o UnaryOpDisplay(top.tree.op))
           [] OTHER ->
                TreeFmtLoop(rest \o << FmtS(<<")">>), FmtT(top.tree.next_2),
                                       FmtS(<<" ">> \o BinaryOpDisplay(top.tree.op) \o <<" ">>),
                                       FmtT(top.tree.next_1) >>,
                            f \o <<"(">>)

TreeDisplay(tree) == TreeFmtLoop(<<FmtT(tree)>>, <<>>)

(* rpn_slice_to_string: the elements separated by one space. *)
RECURSIVE rpn_slice_to_string_loop(_, _, _)
rpn_slice_to_string_loop(rpn, i, ret) ==
    IF i > Len(rpn) THEN ret
    ELSE LET e == rpn[i]
             shown == CASE e.k = "Name"  -> e.s
                        [] e.k = "Unary" -> UnaryOpDisplay(e.op)
                        [] OTHER         -> BinaryOpDisplay(e.op)
         IN rpn_slice_to_string_loop(rpn, i + 1, ret \o <<" ">> \o shown)

rpn_slice_to_string(rpn) ==
    IF Len(rpn) = 0 THEN <<>>
    ELSE LET e == rpn[1]
             shown == CASE e.k = "Name"  -> e.s
                        [] e.k = "Unary" -> UnaryOpDisplay(e.op)
                        [] OTHER         -> BinaryOpDisplay(e.op)
         IN rpn_slice_to_string_loop(rpn, 2, shown)


(* ------------------------------------------------------------------ *)
(* The expressions, maps and builds the program is run on             *)
(* ------------------------------------------------------------------ *)

RECURSIVE DecimalText(_)
DecimalText(n) ==
    IF n < 10 THEN <<DecDigits[n + 1]>>
    ELSE Append(DecimalText(n \div 10), DecDigits[(n % 10) + 1])

(* Every spelling of a binary operator the parser accepts. *)
BinaryOpTexts ==
    { <<"*">>, <<"u00D7">>, <<"u00B7">>, <<"/">>, <<"u2215">>, <<"u2044">>,
      <<"u00F7">>, <<"+">>, <<"-">>, <<"u2212">>, <<"%">>, <<"u27CC">>,
      <<"/", "/">>, <<"^">>, <<"&">>, <<"|">>, <<"u226A">>, <<"<", "<">>,
      <<"u226B">>, <<">", ">">> }
LoneOpTexts == { <<"<">>, <<">">> }
OpTexts     == BinaryOpTexts \cup LoneOpTexts

In(entry, expression, map) ==
    [entry |-> entry, expression |-> expression, map |-> map]

(* a op1 b op2 c, bare and with either pair in parentheses. *)
ThreeOperandInputs ==
    { In("parse", <<"7">> \o o1 \o <<"3">> \o o2 \o <<"2">>, NoMap) :
        o1 \in OpTexts, o2 \in OpTexts }
    \cup
    { In("parse", <<"(", "7">> \o o1 \o <<"3", ")">> \o o2 \o <<"2">>, NoMap) :
        o1 \in BinaryOpTexts, o2 \in BinaryOpTexts }
    \cup
    { In("parse", <<"7">> \o o1 \o <<"(", "3">> \o o2 \o <<"2", ")">>, NoMap) :
        o1 \in BinaryOpTexts, o2 \in BinaryOpTexts }

(* Literals of every kind of Number, around the limits of the build. *)
LiteralTexts ==
    { <<"0">>, <<"1">>, <<"3">>, DecimalText(MaxInt), DecimalText(MaxInt + 1),
      <<"0", ".", "0">>, <<"0", ".", "5">>, <<"2", ".", "5">>,
      DecimalText(Pow2(MantBits)) \o <<".", "0">>,
      DecimalText(Pow2(MantBits + 1)) \o <<".", "0">>,
      <<"i", "n", "f">>, <<"n", "a", "n">>, <<"0", "x", "1", "f">>,
      <<"b", "c", "d">> }

UnaryTexts == { <<>>, <<"-">>, <<"+">>, <<"!">>, <<"-", "-">>, <<"!", "-">> }

LiteralInputs ==
    { In("parse", u \o l, NoMap) : u \in UnaryTexts, l \in LiteralTexts }
    \cup
    { In("parse", l1 \o o \o l2, NoMap) :
        l1 \in LiteralTexts, l2 \in LiteralTexts,
        o \in { <<"+">>, <<"-">>, <<"*">>, <<"/">> } }

(* Shifts by a signed amount. *)
ShiftTexts == { <<"u226A">>, <<"<", "<">>, <<"u226B">>, <<">", ">">> }
ShiftInputs ==
    { In("parse", a \o sh \o n, NoMap) :
        a \in { <<"5">>, <<"2", ".", "5">> }, sh \in ShiftTexts,
        n \in { <<"1">>, <<"-", "1">>, <<"(", "-", "1", ")">>, <<"-", "2">>,
                <<"-", "0", ".", "5">>, <<"+", "1">> } }

(* Expressions on variables, with the maps of the library's tests. *)
ReplacementTexts ==
    { <<"3">>, <<"3", "*", "3">>, <<"1", "+", "2">>, <<"4", "/", "2">>,
      <<"0", ".", "5">>, <<"b">>, <<"1", "+">> }
VariableMaps ==
    { SomeMap((<<"a">> :> ra) @@ (<<"b">> :> rb)
              @@ (<<"c">> :> <<"(", "(", "(", "3", ")", "*", "(", "5", ")", ")", ")">>)) :
        ra \in ReplacementTexts, rb \in ReplacementTexts }
VariableExpressions ==
    { <<"a", "+", "b">>, <<"a", "*", "b">>, <<"a", "&", "b">>, <<"a">>,
      <<"-", "a", "+", "b", "u2212", "c">>,
      <<"-", "a", " ", "+", " ", "b", " ", "u2212", " ", "c">>,
      <<"a", "+", "9">> }
VariableInputs ==
    { In("parse", e, m) : e \in VariableExpressions, m \in VariableMaps }
    \cup { In("parse", e, NoMap) : e \in VariableExpressions }
    \cup { In("parse", e, ChainMap) :
             e \in { <<"a">>, <<"b">>, <<"c">>, <<"a", "+", "c">>, <<"c", "+", "1">> } }

(* Expressions written in RPN. *)
RpnInputs ==
    { In("parse_rpn", <<"6", " ", "1", " ">> \o o, NoMap) : o \in OpTexts }
    \cup
    { In("parse_rpn", <<"6", " ", "1", " ">> \o o1 \o <<"\t", "2", " ">> \o o2, NoMap) :
        o1 \in { <<"+">>, <<"<">>, <<">", ">">> }, o2 \in { <<"*">>, <<">">>, <<"<", "<">> } }
    \cup
    { In("parse_rpn", e, NoMap) :
        e \in { <<"6", " ", "+">>, <<"6", " ", "1">>, <<"6", " ", "1", " ", "!">>,
                <<>>, <<"6", " ", "1", " ", "(">>,
                <<"3", " ", "2", " ", "+", " ", "*">>,
                <<"8", " ", "7", " ", "+", " ", "+">>,
                <<"+">>, <<"8", " ", "7">> } }

(* RPN texts with a character of the operator alphabet that is no binary *)
(* operator, at every place of a balanced or unbalanced text.            *)
NoBinaryChars == {"(", ")", "!", "~"}
RpnNoBinaryInputs ==
    { In("parse_rpn", pre \o <<c>> \o post, NoMap) :
        pre \in { <<>>, <<"6", " ">>, <<"6", " ", "1", " ", "+", " ">>,
                  <<"6", " ", "1", " ", "<", "<", " ">>, <<"6", " ", "<", " ">>,
                  <<"6", " ", "1", " ", ">", ">", ">">> },
        c \in NoBinaryChars,
        post \in { <<>>, <<" ", "2", " ", "+">>, <<")">>, <<" ", "<">>, <<"!", "(">> } }
    \cup
    { In("parse_rpn", e, NoMap) :
        e \in { <<"3", " ", "(", "4", " ", "+", " ", "3", ")", " ", "2", " ", "+", " ", "*">>,
                <<"(", "8", "8", " ", "7", "7", " ", "+", ")">> } }

(* Expressions with parentheses, matched or not. *)
ParenTexts ==
    { <<"3", "3", ")">>, <<"(", "(", "3", "3", ")">>, <<")", "(">>, <<"(">>, <<")">>,
      <<"(", "1", ")", ")", "(">>, <<"(", "1", "+", "2">>, <<"1", "+", "2", ")">>,
      <<"(", "1", ")", "+", "(", "2">>, <<"1", ")", "+", "(", "2">>,
      <<"(", "(", "1", ")">>, <<"(", "1", ")", ")">>, <<"3", "*", "(">>,
      <<"(", "3", ")", "*", "2", ")">>, <<"(", "(", "1", "+", "2", ")", "*", "3">>,
      <<"-", "(", "2">>, <<"(", "2", "/", ")", ")">>, <<"*", "2", ")">>,
      <<"(", "(", ")">>, <<"(", "(", "1", "+", "2", ")", "*", "3", ")">>,
      <<"(", "1", ")", "+", "(", "2", ")">>, <<"(", "(", "3", "3", ")", ")">> }
ParenInputs == { In("parse", e, NoMap) : e \in ParenTexts }

(* A binary-only operator character after the start of the text, a "(",  *)
(* a unary operator or another operator.                                 *)
BinaryOnlyChars ==
    MATH_CHARS \ {"+", "-", "u2212", "!", "~", "(", ")"}
PlainPrefixes ==
    { <<>>, <<"(">>, <<"3", "3", "+">>, <<"3", "*">>, <<"-">>, <<"2", "+", "(">>,
      <<"3", ")", "(">>, <<"3", "u27CC">>, <<"3", "u226B">> }
MergedPrefixes ==
    { <<"3", "/", "/">>, <<"3", "<", "<">>, <<"3", ">", ">">> }
MisplacedTexts ==
    { pre \o <<c>> \o post :
        pre \in PlainPrefixes, c \in BinaryOnlyChars,
        post \in { <<>>, <<"2">>, <<"2", "3">>, <<")">> } }
    \cup
    { pre \o <<c>> \o post :
        pre \in MergedPrefixes, c \in BinaryOnlyChars, post \in { <<>>, <<")">> } }
    \cup { <<"3", "<", "<", "*", "2">> }
MisplacedInputs == { In("parse", e, NoMap) : e \in MisplacedTexts }

(* Expressions with an empty operand, at the top level and in a group. *)
AtTopLevel(o) == <<"2">> \o o
InGroup(o)    == <<"(", "2">> \o o \o <<")">>
AfterSum(o)   == <<"3", "+", "(", "2">> \o o \o <<")">>
EmptyOperandTexts ==
    { <<>>, <<"2", "2", "+", "(", ")">>, <<"(", ")">>, <<"(", "-", ")">>,
      <<"(", "2", "/", ")", "*", "3">>, <<"-">>, <<"2", "*", "-">> }
    \cup { AtTopLevel(o) : o \in BinaryOpTexts }
    \cup { InGroup(o) : o \in BinaryOpTexts }
    \cup { AfterSum(o) : o \in BinaryOpTexts }
EmptyOperandInputs == { In("parse", e, NoMap) : e \in EmptyOperandTexts }

(* Two operands and one operator in infix, for every operator text. *)
TwoOperandInputs ==
    { In("parse", a \o o \o <<"4">>, NoMap) :
        a \in { <<"6">>, <<"3", "8", "7", "6">> }, o \in OpTexts }

(* The expressions of the library's documentation and tests. *)
ExampleInputs ==
    { In("parse", e, NoMap) :
        e \in { <<"3", "+", "1", "*", "2">>,
                <<"(", "1", "+", "2", ")", "*", "3">>,
                <<"3", "-", "4", "+", "(", "-", "5", ")">>,
                <<"(", "2", "+", "3", ")", "*", "2", "/", "5">>,
                <<"3", ".", "2", "+", "3", ".", "0">>,
                <<"3", "+", "8", ".", "0">>,
                <<"3", " ", "+", " ", "8", ".", "0">>,
                <<"3", "-", "8", ".", "5">>,
                <<"3", " ", "-", " ", "8", ".", "5">>,
                <<"5", "/", "0">>, <<"5", "%", "0">>,
                <<"3", ".", "1", "^", "4", ".", "2">>,
                <<"1", "/", "/", "0", ".", "2", "5">>,
                <<"7", "u27CC", "0", ".", "2", "5">>,
                <<"7", "/", "/", "2">>,
                <<"u20AC">>, <<"a", "u00E9">>, <<"u00E9", "a", "b">>,
                <<"1", "+", "u20AC">>,
                <<"1", "+", "-", "1">>,
                <<"1", " ", "+", " ", "-", " ", "1">>,
                <<"1", "-", "(", "1", "*", "3", ")">>,
                <<"1", " ", "-", " ", "(", "1", "*", "3", ")">>,
                <<"3", " ", "3", " ", "+">>,
                <<"8", "/", "2">>, <<"-", "3", "+", "4">>,
                <<"1", "/", "0", "+", "a", "b", "c">>,
                <<"a", "b", "c", "+", "1", "/", "0">>,
                <<"x", "y", "z", "*", "a", "b", "c">>,
                <<"3", "(", "4", ")">>, <<"(", "3", ")", "(", "4", ")">>,
                <<"(", "3", "+", ")">>, <<"(", "3", "+", "4", "+", ")">>,
                <<"2", "*", "3", "(", "4", ")">> } }

(* Chains of prefix signs before the name a, alone or as the right operand *)
(* of a product, with a = 3 (the chain of seven signs of the library's     *)
(* test included).                                                         *)
MaxSigns == 3
Signs == {"+", "-", "u2212"}
SignChains == UNION { [1..k -> Signs] : k \in 0..MaxSigns }
                \cup { <<"-", "u2212", "-", "+", "+", "+", "-">> }
SignMap == SomeMap(<<"a">> :> <<"3">>)
SignChainInputs ==
    { In("parse", pre \o c \o <<"a">>, SignMap) :
        pre \in { <<>>, <<"2", "*">> }, c \in SignChains }

(* Expressions that end with a sign in prefix position: nothing, or a text *)
(* ending with an operator, followed by one sign.                          *)
SignChars == {"+", "-", "u2212", "!", "~"}
PlainBefore ==
    { <<>>, <<"3", "+">>, <<"3", "*">>, <<"-">>, <<"3", "u226A">>, <<"3", "^">>,
      <<"(", "2", ")", "*">>, <<"3", "+", "!">> }
MergedBefore == { <<"3", "/", "/">>, <<"3", "<", "<">>, <<"3", ">", ">">> }
TrailingSignInputs ==
    { In("parse", pre \o <<c>>, NoMap) :
        pre \in PlainBefore \cup MergedBefore, c \in SignChars }

(* Postfix expressions of three names and two binary operators, which are *)
(* stack-balanced whatever the names and the operators.                    *)
RpnNameTriples ==
    { <<"5", " ", "3", " ", "1", " ">>, <<"6", " ", "1", " ", "1", " ">>,
      <<"a", "b", " ", "x", " ", "0", ".", "5", " ">> }
RpnBalanced(names, o1, o2) == names \o o1 \o <<" ">> \o o2
RpnOperatorPairs(names) ==
    IF names = <<"5", " ", "3", " ", "1", " ">>
    THEN BinaryOpTexts \X BinaryOpTexts
    ELSE { <<"+">>, <<"-">> } \X { <<"*">>, <<"/">>, <<"%">> }
RpnBalancedTexts ==
    UNION { { RpnBalanced(n, o[1], o[2]) : o \in RpnOperatorPairs(n) } :
            n \in RpnNameTriples }
RpnBalancedInputs == { In("parse_rpn", e, NoMap) : e \in RpnBalancedTexts }

Inputs == ThreeOperandInputs \cup LiteralInputs \cup ShiftInputs
          \cup VariableInputs \cup RpnInputs \cup RpnNoBinaryInputs
          \cup ParenInputs \cup MisplacedInputs \cup EmptyOperandInputs
          \cup TwoOperandInputs
          \cup ExampleInputs \cup SignChainInputs \cup TrailingSignInputs
          \cup RpnBalancedInputs

(* ------------------------------------------------------------------ *)
(* The program as a state machine                                     *)
(* ------------------------------------------------------------------ *)

VARIABLES
    expression,    \* the text given to MathParse::parse / parse_rpn
    entry,         \* which constructor is called: "parse" or "parse_rpn"
    variable_map,  \* the map given to the solve_* calls
    build,         \* whether the build checks integer overflow
    pc,            \* the position in the construction
    line,          \* the token vector being rewritten in place
    rpn_steps,     \* the work stack of rpn::parse_rpn
    rpn_ret,       \* the RPN list built so far
    parsed,        \* the Result of the constructor, Unset until it returns
    res_auto,      \* what solve_auto returned, Unset before the call
    res_int,       \* what solve_int returned
    res_float,     \* what solve_float returned
    res_tree,      \* what to_tree returned
    res_exec,      \* what exec_rpn returned for a given instruction list
    num_1, num_2,  \* the operands of a single Number operation
    num_op,        \* the operation applied to them
    num_res        \* its result

vars == <<expression, entry, variable_map, build, pc, line, rpn_steps, rpn_ret,
          parsed, res_auto, res_int, res_float, res_tree, res_exec,
          num_1, num_2, num_op, num_res>>

Unset == [t |-> "Unset"]

inputVars  == <<expression, entry, variable_map, build>>
numVars    == <<num_1, num_2, num_op, num_res>>
solveVars  == <<res_auto, res_int, res_float, res_tree, res_exec>>

InitExpression ==
    /\ \E in \in Inputs :
          /\ expression = in.expression
          /\ entry = in.entry
          /\ variable_map = in.map
    /\ build \in Builds
    /\ pc = "start"
    /\ line = <<>>
    /\ rpn_steps = <<>>
    /\ rpn_ret = <<>>
    /\ parsed = Unset
    /\ res_auto = Unset /\ res_int = Unset /\ res_float = Unset
    /\ res_tree = Unset /\ res_exec = Unset
    /\ num_1 = Unset /\ num_2 = Unset /\ num_op = "none" /\ num_res = Unset

(* The constructor returns r. *)
Return(r) ==
    /\ parsed' = r
    /\ pc' = "parsed"

(* parse.rs math_parse: the tokenizer. *)
Tokenize ==
    /\ pc = "start" /\ entry = "parse"
    /\ line' = math_token(expression)
    /\ pc' = "unary"
    /\ UNCHANGED <<inputVars, rpn_steps, rpn_ret, parsed, solveVars, numVars>>

(* math_parse_tokens: a pass over the line; an error ends the constructor. *)
Pass(at, result, then) ==
    /\ pc = at
    /\ IF result.t = "Ok"
       THEN /\ line' = result.line
            /\ pc' = then
            /\ UNCHANGED parsed
       ELSE /\ Return(result)
            /\ UNCHANGED line
    /\ UNCHANGED <<inputVars, solveVars, numVars>>

UnaryParse ==
    /\ Pass("unary", unary_parse(line), "paren")
    /\ UNCHANGED <<rpn_steps, rpn_ret>>

ParenParse ==
    /\ Pass("paren", paren_parse(line), "ops")
    /\ UNCHANGED <<rpn_steps, rpn_ret>>

(* The last pass; rpn::parse_rpn then starts from Solve(0). *)
AllButParenParse ==
    /\ Pass("ops", all_but_paren_parse(line), "rpn")
    /\ rpn_steps' = IF pc' = "rpn" THEN <<Solve(1)>> ELSE rpn_steps
    /\ UNCHANGED rpn_ret

(* One iteration of the loop of rpn::parse_rpn. *)
RpnRunStep ==
    /\ pc = "rpn"
    /\ LET Stepped(r) ==
               IF r.t # "Ok"
               THEN /\ Return(r)
                    /\ UNCHANGED <<rpn_steps, rpn_ret>>
               ELSE /\ rpn_steps' = r.steps
                    /\ rpn_ret' = r.ret
                    /\ IF Len(r.steps) = 0
                       THEN Return([t |-> "Ok", rpn |-> r.ret])
                       ELSE UNCHANGED <<pc, parsed>>
       IN Stepped(rpn_run_step(line, rpn_steps, rpn_ret))
    /\ UNCHANGED <<inputVars, line, solveVars, numVars>>

(* The loop of rpn::parse_rpn is stuck: its next iteration changes nothing. *)
Stuck ==
    /\ pc = "rpn"
    /\ LET Same(r) == r.t = "Ok" /\ r.steps = rpn_steps /\ r.ret = rpn_ret
       IN Same(rpn_run_step(line, rpn_steps, rpn_ret))

(* parse_rpn.rs parse_rpn: the tokenizer. *)
TokenizeRpn ==
    /\ pc = "start" /\ entry = "parse_rpn"
    /\ line' = math_token(expression)
    /\ pc' = "rpn_tokens"
    /\ UNCHANGED <<inputVars, rpn_steps, rpn_ret, parsed, solveVars, numVars>>

RpnParseTokens ==
    /\ pc = "rpn_tokens"
    /\ LET Parsed(rpn) ==
               IF rpn.t = "Ok"
               THEN /\ rpn_ret' = rpn.rpn
                    /\ pc' = "rpn_check"
                    /\ UNCHANGED parsed
               ELSE /\ Return(rpn)
                    /\ UNCHANGED rpn_ret
       IN Parsed(rpn_parse_tokens(line))
    /\ UNCHANGED <<inputVars, line, rpn_steps, solveVars, numVars>>

CheckRpnValid ==
    /\ pc = "rpn_check"
    /\ LET Checked(valid) == IF valid.t = "Ok"
                              THEN Return([t |-> "Ok", rpn |-> rpn_ret])
                              ELSE Return(valid)
       IN Checked(check_rpn_valid(build, rpn_ret))
    /\ UNCHANGED <<inputVars, line, rpn_steps, rpn_ret, solveVars, numVars>>

(* The solve_* methods of the MathParse the constructor returned. *)
Constructed == pc = "parsed" /\ parsed.t = "Ok"

SolveAuto ==
    /\ Constructed /\ res_auto = Unset
    /\ res_auto' = solve_auto(build, parsed.rpn, variable_map)
    /\ UNCHANGED <<inputVars, pc, line, rpn_steps, rpn_ret, parsed,
                   res_int, res_float, res_tree, res_exec, numVars>>

SolveInt ==
    /\ Constructed /\ res_int = Unset
    /\ res_int' = solve_int(build, parsed.rpn, variable_map)
    /\ UNCHANGED <<inputVars, pc, line, rpn_steps, rpn_ret, parsed,
                   res_auto, res_float, res_tree, res_exec, numVars>>

SolveFloat ==
    /\ Constructed /\ res_float = Unset
    /\ res_float' = solve_float(build, parsed.rpn, variable_map)
    /\ UNCHANGED <<inputVars, pc, line, rpn_steps, rpn_ret, parsed,
                   res_auto, res_int, res_tree, res_exec, numVars>>

ToTree ==
    /\ Constructed /\ res_tree = Unset
    /\ res_tree' = parse_to_tree(parsed.rpn)
    /\ UNCHANGED <<inputVars, pc, line, rpn_steps, rpn_ret, parsed,
                   res_auto, res_int, res_float, res_exec, numVars>>

NextExpression ==
    \/ Tokenize
    \/ UnaryParse
    \/ ParenParse
    \/ AllButParenParse
    \/ RpnRunStep
    \/ TokenizeRpn
    \/ RpnParseTokens
    \/ CheckRpnValid
    \/ SolveAuto
    \/ SolveInt
    \/ SolveFloat
    \/ ToTree

(* ------------------------------------------------------------------ *)
(* The operators of Number, each applied to a pair of Numbers         *)
(* ------------------------------------------------------------------ *)

IntSamples ==
    { MinInt, MinInt + 1, -2, -1, 0, 1, 2, 3, IntBits - 1, IntBits,
      MaxInt - 1, MaxInt }

FloatSamples ==
    { FZero, Fin(1, -1), Fin(-1, -1), Fin(3, -1), Fin(-5, -1), Fin(1, 0),
      Fin(-1, 0), Fin(3, 0), Fin(1, 1), Fin(Pow2(MantBits) - 1, 0),
      Fin(1, MantBits), Fin(-1, MantBits), Fin(1, MantBits + 1),
      Fin(-1, IntBits), NaN, PInf, NInf }

Numbers == { IntV(i) : i \in IntSamples } \cup FloatSamples

InitNum ==
    /\ num_1 \in Numbers
    /\ num_2 \in Numbers
    /\ build \in Builds
    /\ num_op = "none"
    /\ num_res = Unset
    /\ pc = "num"
    /\ expression = <<>> /\ entry = "none" /\ variable_map = NoMap
    /\ line = <<>> /\ rpn_steps = <<>> /\ rpn_ret = <<>>
    /\ parsed = Unset
    /\ res_auto = Unset /\ res_int = Unset /\ res_float = Unset
    /\ res_tree = Unset /\ res_exec = Unset

Apply(op, result) ==
    /\ pc = "num" /\ num_op = "none"
    /\ num_op' = op
    /\ num_res' = result
    /\ UNCHANGED <<inputVars, pc, line, rpn_steps, rpn_ret, parsed, solveVars,
                   num_1, num_2>>

Add        == Apply("Add", NumAdd(build, num_1, num_2))
Sub        == Apply("Sub", NumSub(build, num_1, num_2))
Mul        == Apply("Mul", NumMul(build, num_1, num_2))
Div        == Apply("Div", NumDiv(num_1, num_2))
Rem        == Apply("Rem", NumRem(num_1, num_2))
IntegerDiv == Apply("IntegerDiv", integer_div(build, num_1, num_2))
Not        == Apply("Not", NumNot(num_1))
BitXor     == Apply("BitXor", NumBitXor(num_1, num_2))
BitAnd     == Apply("BitAnd", NumBitAnd(num_1, num_2))
BitOr      == Apply("BitOr", NumBitOr(num_1, num_2))
Shl        == Apply("Shl", NumShl(build, num_1, num_2))
Shr        == Apply("Shr", NumShr(build, num_1, num_2))

NextNum ==
    \/ Add \/ Sub \/ Mul \/ Div \/ Rem \/ IntegerDiv
    \/ Not \/ BitXor \/ BitAnd \/ BitOr \/ Shl \/ Shr

(* ------------------------------------------------------------------ *)
(* exec_rpn applied to a given instruction list                       *)
(* ------------------------------------------------------------------ *)

MaxRpnLen == 4

(* Instructions whose callbacks succeed on the values they can meet here. *)
Instructions ==
    { RpnName(<<"1">>), RpnName(<<"2">>), Unary("Minus"), Unary("Not"),
      Binary("Addition"), Binary("Multiplication"), Binary("Subtraction") }

InstructionLists == UNION { [1..n -> Instructions] : n \in 0..MaxRpnLen }

InitRpn ==
    /\ rpn_ret \in InstructionLists
    /\ build \in Builds
    /\ pc = "exec"
    /\ expression = <<>> /\ entry = "none" /\ variable_map = NoMap
    /\ line = <<>> /\ rpn_steps = <<>>
    /\ parsed = Unset
    /\ res_auto = Unset /\ res_int = Unset /\ res_float = Unset
    /\ res_tree = Unset /\ res_exec = Unset
    /\ num_1 = Unset /\ num_2 = Unset /\ num_op = "none" /\ num_res = Unset

(* math_solve: exec_rpn with the callbacks of the numeric evaluation. *)
ExecRpn ==
    /\ pc = "exec" /\ res_exec = Unset
    /\ res_exec' = math_solve(build, rpn_ret, variable_map)
    /\ UNCHANGED <<inputVars, pc, line, rpn_steps, rpn_ret, parsed,
                   res_auto, res_int, res_float, res_tree, numVars>>

(* A run constructs a MathParse from a text and uses it, applies one       *)
(* operator of Number to a pair of Numbers, or executes one instruction    *)
(* list.                                                                   *)
Init == InitExpression \/ InitNum \/ InitRpn

Next == NextExpression \/ NextNum \/ ExecRpn

Spec == Init /\ [][Next]_vars

(* ------------------------------------------------------------------ *)
(* Properties                                                         *)
(* ------------------------------------------------------------------ *)

(* The tier of an operator text, 1 the loosest, and the operation it writes. *)
TierOfText(o) ==
    CASE o = <<"|">> -> 1
      [] o = <<"^">> -> 2
      [] o = <<"&">> -> 3
      [] o \in ShiftTexts -> 4
      [] o \in { <<"+">>, <<"-">>, <<"u2212">> } -> 5
      [] OTHER -> 6

OpOfText(o) ==
    CASE o \in { <<"*">>, <<"u00D7">>, <<"u00B7">> } -> "Multiplication"
      [] o \in { <<"/">>, <<"u2215">>, <<"u2044">>, <<"u00F7">> } -> "Division"
      [] o \in { <<"/", "/">>, <<"u27CC">> } -> "IntegerDivision"
      [] o = <<"%">> -> "Reminder"
      [] o = <<"+">> -> "Addition"
      [] o \in { <<"-">>, <<"u2212">> } -> "Subtraction"
      [] o \in { <<"<", "<">>, <<"u226A">> } -> "ShiftLeft"
      [] o \in { <<">", ">">>, <<"u226B">> } -> "ShiftRight"
      [] o = <<"&">> -> "BitwiseAnd"
      [] o = <<"|">> -> "BitwiseOr"
      [] OTHER -> "BitwiseXor"

Flat(o1, o2)       == <<"7">> \o o1 \o <<"3">> \o o2 \o <<"2">>
LeftGroup(o1, o2)  == <<"(", "7">> \o o1 \o <<"3", ")">> \o o2 \o <<"2">>
RightGroup(o1, o2) == <<"7">> \o o1 \o <<"(", "3">> \o o2 \o <<"2", ")">>

OkRpn(rpn) == [t |-> "Ok", rpn |-> rpn]
FirstPairFirst(o1, o2) ==
    OkRpn(<<RpnName(<<"7">>), RpnName(<<"3">>), Binary(OpOfText(o1)),
            RpnName(<<"2">>), Binary(OpOfText(o2))>>)
SecondPairFirst(o1, o2) ==
    OkRpn(<<RpnName(<<"7">>), RpnName(<<"3">>), RpnName(<<"2">>),
            Binary(OpOfText(o2)), Binary(OpOfText(o1))>>)

Returned == entry = "parse" /\ pc = "parsed"

(* C1: binary operators group by precedence tier, loosest to tightest      *)
(* | ; ^ ; & ; << >> ; + - ; * / % // with all their aliases: in           *)
(* 'a op1 b op2 c' the operator of the tighter tier is applied first, a    *)
(* parenthesised pair is applied first whatever the operators are;         *)
(* '3+1*2' gives the RPN '3 1 2 * +' and '(1+2)*3' solves to 9.            *)
C1_PrecedenceTiers ==
    /\ Returned =>
         \A o1 \in BinaryOpTexts, o2 \in BinaryOpTexts :
            /\ (expression = Flat(o1, o2) /\ TierOfText(o1) > TierOfText(o2))
                 => parsed = FirstPairFirst(o1, o2)
            /\ (expression = Flat(o1, o2) /\ TierOfText(o1) < TierOfText(o2))
                 => parsed = SecondPairFirst(o1, o2)
            /\ expression = LeftGroup(o1, o2) => parsed = FirstPairFirst(o1, o2)
            /\ expression = RightGroup(o1, o2) => parsed = SecondPairFirst(o1, o2)
    /\ (Returned /\ expression = <<"3", "+", "1", "*", "2">>)
         => /\ parsed.t = "Ok"
            /\ rpn_slice_to_string(parsed.rpn) = <<"3", " ", "1", " ", "2", " ", "*", " ", "+">>
    /\ (Returned /\ expression = <<"(", "1", "+", "2", ")", "*", "3">>)
         => /\ parsed.t = "Ok"
            /\ res_int \in {Unset, IntV(9)}
            /\ res_auto \in {Unset, IntV(9)}

(* A looser operator after a tighter one, a tighter one after a looser     *)
(* one, and the two documented expressions have been parsed and solved.    *)
C1_Witness ==
    /\ Returned
    /\ \/ expression = Flat(<<"|">>, <<"/", "/">>) /\ parsed = SecondPairFirst(<<"|">>, <<"/", "/">>)
       \/ expression = <<"(", "1", "+", "2", ")", "*", "3">> /\ res_int = IntV(9)

(* C2: operators of one tier associate to the left: 'a op1 b op2 c' gives  *)
(* the RPN [a, b, op1, c, op2]; '3-4+(-5)' gives 3 4 - 5 neg + and         *)
(* '(2+3)*2/5' renders as '(((2 + 3) * 2) / 5)'.                           *)
C2_LeftAssociative ==
    /\ Returned =>
         \A o1 \in BinaryOpTexts, o2 \in BinaryOpTexts :
            (expression = Flat(o1, o2) /\ TierOfText(o1) = TierOfText(o2))
              => parsed = FirstPairFirst(o1, o2)
    /\ (Returned /\ expression = <<"3", "-", "4", "+", "(", "-", "5", ")">>)
         => parsed = OkRpn(<<RpnName(<<"3">>), RpnName(<<"4">>), Binary("Subtraction"),
                             RpnName(<<"5">>), Unary("Minus"), Binary("Addition")>>)
    /\ (Returned /\ expression = <<"(", "2", "+", "3", ")", "*", "2", "/", "5">>
          /\ res_tree # Unset)
         => /\ res_tree.t = "Ok"
            /\ TreeDisplay(res_tree.v) =
                 <<"(", "(", "(", "2", " ", "+", " ", "3", ")", " ", "*", " ",
                   "2", ")", " ", "/", " ", "5", ")">>

(* Two operators of one tier have been parsed, and the documented tree     *)
(* has been rendered.                                                      *)
C2_Witness ==
    /\ Returned
    /\ \/ expression = Flat(<<"-">>, <<"+">>) /\ parsed = FirstPairFirst(<<"-">>, <<"+">>)
       \/ /\ expression = <<"(", "2", "+", "3", ")", "*", "2", "/", "5">>
          /\ res_tree # Unset /\ res_tree.t = "Ok"

(* The text with every one-letter name of the map written as its           *)
(* replacement in parentheses.                                             *)
RECURSIVE InParentheses(_, _)
InParentheses(text, m) ==
    IF Len(text) = 0 THEN <<>>
    ELSE (IF <<text[1]>> \in DOMAIN m
          THEN <<"(">> \o m[<<text[1]>>] \o <<")">>
          ELSE <<text[1]>>) \o InParentheses(Tail(text), m)

(* What solve_auto gives for a text solved without a map. *)
SolvedAlone(text) ==
    LET p == MathParse_parse(text) IN
    IF p.t # "Ok" THEN p ELSE solve_auto(build, p.rpn, NoMap)

TestMap(ra, rb) ==
    SomeMap((<<"a">> :> ra) @@ (<<"b">> :> rb)
            @@ (<<"c">> :> <<"(", "(", "(", "3", ")", "*", "(", "5", ")", ")", ")">>))

(* C3: a name with an entry in the map is evaluated as its replacement     *)
(* text solved on its own, so the result is the one of the expression with *)
(* the replacement written in parentheses: with a = '3' and b = '3*3',     *)
(* 'a+b' gives Int 12 and, with c = '(((3)*(5)))', '-a + b - c' gives      *)
(* -3+9-15; a name with no entry is read as a literal.                     *)
C3_ReplacementIsSubExpression ==
    (Returned /\ parsed.t = "Ok" /\ res_auto # Unset) =>
       /\ (/\ variable_map.kind = "Some"
           /\ " " \notin { expression[i] : i \in 1..Len(expression) }
           /\ \A i \in 1..Len(expression) :
                 <<expression[i]>> \in DOMAIN variable_map.m
                   => IsNum(SolvedAlone(variable_map.m[<<expression[i]>>])))
            => res_auto = SolvedAlone(InParentheses(expression, variable_map.m))
       /\ (variable_map = TestMap(<<"3">>, <<"3", "*", "3">>)
             /\ expression = <<"a", "+", "b">>)
            => res_auto = IntV(12)
       /\ (variable_map = TestMap(<<"3">>, <<"3", "*", "3">>)
             /\ expression = <<"-", "a", " ", "+", " ", "b", " ", "u2212", " ", "c">>)
            => res_auto = IntV(-9)
       /\ (variable_map = TestMap(<<"3">>, <<"3", "*", "3">>)
             /\ expression = <<"a", "+", "9">>)
            => res_auto = IntV(12)

(* C4: for an Int a and n > 0, 'a<<-n' and 'a>>-n' are parsed, the sign    *)
(* being a unary minus on n, and solving returns UnexpectedNegative.       *)
C4_NegativeShiftAmount ==
    \A sh \in ShiftTexts, n \in { <<"1">>, <<"2">> } :
       (entry = "parse" /\ expression = <<"5">> \o sh \o <<"-">> \o n) =>
          /\ ~Stuck
          /\ pc = "parsed" =>
               parsed = OkRpn(<<RpnName(<<"5">>), RpnName(n), Unary("Minus"),
                                Binary(OpOfText(sh))>>)
          /\ res_auto \in {Unset, UnexpectedNegative}
          /\ res_int \in {Unset, UnexpectedNegative}
          /\ res_float \in {Unset, UnexpectedNegative}

ZeroLiterals == { <<"0">>, <<"0", ".", "0">> }
NumberLiterals == LiteralTexts \ { <<"b", "c", "d">> }

C6_TotalArithmetic ==
    /\ (num_op \in {"Add", "Sub", "Mul"} /\ IsInt(num_1) /\ IsInt(num_2))
         => IsInt(num_res)
    /\ (num_op \in {"Add", "Sub", "Mul"} /\ (IsFloat(num_1) \/ IsFloat(num_2)))
         => IsFloat(num_res)
    /\ (num_op = "Div" /\ num_2 \notin {IntV(0), FZero}) => IsFloat(num_res)

(* The Float is a whole number: finite, with no fractional part. *)
Integral(f) == f.cls = "fin" /\ f.x >= 0
WithinLimit(f) == f.cls = "fin" /\ Abs(FNum(f)) <= Pow2(MantBits) * FDen(f)

(* solve_auto's answer for the evaluated Number ev. *)
NarrowingRule(ev) ==
    IF ev.t # "Ok" THEN res_auto = ev
    ELSE IF IsInt(ev.v) THEN res_auto = ev.v
    ELSE IF Integral(ev.v) /\ WithinLimit(ev.v) THEN res_auto = IntV(FNum(ev.v))
    ELSE res_auto = ev.v

(* solve_auto follows the narrowing rule on whatever the evaluation gives. *)
AutoNarrowing ==
    (Constructed /\ res_auto # Unset)
       => NarrowingRule(math_solve(build, parsed.rpn, variable_map))

(* C7: solve_auto gives Ok(Ok(i)) when the evaluated Number is Int(i) or a *)
(* Float that is integral and within the limit, Ok(Err(f)) for every other *)
(* Float f, and never turns a Float into an error; '3 + 8.0' gives         *)
(* Ok(Ok(11)) and '3 - 8.5' gives Ok(Err(-5.5)).                           *)
C7_SolveAuto ==
    /\ AutoNarrowing
    /\ (Returned /\ expression = <<"3", " ", "+", " ", "8", ".", "0">>)
         => parsed.t = "Ok" /\ res_auto \in {Unset, IntV(11)}
    /\ (Returned /\ expression = <<"3", " ", "-", " ", "8", ".", "5">>)
         => parsed.t = "Ok" /\ res_auto \in {Unset, Fin(-11, -1)}

AllSolved == Constructed /\ res_auto # Unset /\ res_int # Unset /\ res_float # Unset

IntAgrees   == (IsInt(res_int) \/ IsInt(res_auto)) => res_int = res_auto
FloatAgrees == IF IsInt(res_auto) THEN res_float = i_to_f(res_auto.v)
               ELSE res_float = res_auto

(* C8 as stated: solve_int gives Ok(i) exactly when solve_auto gives       *)
(* Ok(Ok(i)); when solve_auto gives Ok(Err(f)) with f not integral,        *)
(* solve_int gives ReturnFloatExpectedInt(f); solve_float gives Ok exactly *)
(* when solve_auto does, the integer converted, and the same Err otherwise. *)
C8_AsStated ==
    AllSolved =>
       /\ IntAgrees
       /\ (IsFloat(res_auto) /\ ~Integral(res_auto))
            => res_int = ReturnFloatExpectedInt(res_auto)
       /\ FloatAgrees

(* C8: solve_int gives Ok(i) exactly when solve_auto gives Ok(Ok(i)); when *)
(* solve_auto gives Ok(Err(f)) with f finite and not integral, solve_int   *)
(* gives ReturnFloatExpectedInt(f), and for f NaN, infinite or beyond the  *)
(* limit it gives IntConversion(f); solve_float gives Ok exactly when      *)
(* solve_auto does, the integer converted, and the same Err otherwise;     *)
(* '3.2+3.0' gives ReturnFloatExpectedInt(6.2).                            *)
C8_Narrowings ==
    /\ AllSolved =>
         /\ IntAgrees
         /\ (IsFloat(res_auto) /\ res_auto.cls = "fin" /\ ~Integral(res_auto))
              => res_int = ReturnFloatExpectedInt(res_auto)
         /\ (IsFloat(res_auto) /\ (res_auto.cls # "fin" \/ Integral(res_auto)))
              => res_int = IntConversion(res_auto)
         /\ FloatAgrees
    /\ (Returned /\ expression = <<"3", ".", "2", "+", "3", ".", "0">> /\ res_int # Unset)
         => res_int = ReturnFloatExpectedInt(
                          FAdd(RoundRat(32, 10), RoundRat(3, 1)))

(* The three methods have answered on a fractional Float, and on an Int.   *)
C8_Witness ==
    /\ AllSolved
    /\ \/ /\ IsFloat(res_auto) /\ res_auto.cls = "fin" /\ ~Integral(res_auto)
          /\ res_int = ReturnFloatExpectedInt(res_auto) /\ res_float = res_auto
       \/ IsInt(res_auto) /\ res_int = res_auto /\ IsFloat(res_float)

GlyphOf(op) == CASE op = "BitXor" -> "^" [] op = "BitOr" -> "|"
                 [] op = "BitAnd" -> "&" [] op = "Shl" -> "u226A"
                 [] OTHER -> "u226B"

LoneHint(c) == ErrH(c, IF c = "<" THEN "<<" ELSE ">>")
ShiftOf(c)  == IF c = "<" THEN "ShiftLeft" ELSE "ShiftRight"
IsLone(o)   == o \in LoneOpTexts
RpnPair     == <<"6", " ", "1", " ">>

(* C10: a lone '<' or '>' is tokenized and folded in the tier of the       *)
(* shifts, and makes parse ('3876<4') and parse_rpn ('6 1 >') return       *)
(* BadOperatorHint('<', "<<") or BadOperatorHint('>', ">>"), while '<<'    *)
(* and '>>' are taken as ShiftLeft and ShiftRight.                         *)
C10_LoneAngleHint ==
    \A c \in {"<", ">"} :
       /\ (Returned /\ expression \in { <<"6", c, "4">>, <<"3", "8", "7", "6", c, "4">> })
            => parsed = LoneHint(c)
       /\ (Returned /\ expression = <<"6", c, c, "4">>)
            => parsed = OkRpn(<<RpnName(<<"6">>), RpnName(<<"4">>), Binary(ShiftOf(c))>>)
       /\ (Returned /\ \E o \in OpTexts : expression = Flat(<<c>>, o))
            => parsed = LoneHint(c)
       /\ (Returned /\ \E o \in BinaryOpTexts : expression = Flat(o, <<c>>))
            => parsed = LoneHint(c)
       /\ (entry = "parse" /\ pc = "rpn" /\ rpn_ret = <<>> /\ rpn_steps = <<Solve(1)>>)
            => /\ expression = Flat(<<c>>, <<"+">>)
                 => line[1] = Operation(c, 1, 2) /\ line[3] = Operation("+", 1, 2)
               /\ expression = Flat(<<c>>, <<"&">>)
                 => line[1] = Operation("&", 3, 4) /\ line[4] = Operation(c, -2, -1)
       /\ (entry = "parse_rpn" /\ pc = "parsed") =>
            /\ expression = RpnPair \o <<c>> => parsed = LoneHint(c)
            /\ expression = RpnPair \o <<c, c>>
                 => parsed = OkRpn(<<RpnName(<<"6">>), RpnName(<<"1">>), Binary(ShiftOf(c))>>)
            /\ (\E o \in { <<"*">>, <<">">>, <<"<", "<">> } :
                   expression = RpnPair \o <<c>> \o <<"\t", "2", " ">> \o o)
                 => parsed = LoneHint(c)

(* '3876<4' and '6 1 >' have been refused with the hint. *)
C10_Witness ==
    /\ pc = "parsed"
    /\ \/ expression = <<"3", "8", "7", "6", "<", "4">> /\ parsed = LoneHint("<")
       \/ entry = "parse_rpn" /\ expression = RpnPair \o <<">">> /\ parsed = LoneHint(">")

(* Whether every Unary finds one value and every Binary two values on the  *)
(* stack, and one value is left after the last instruction.                *)
RECURSIVE Balanced(_, _, _)
Balanced(rpn, i, depth) ==
    IF i > Len(rpn) THEN depth = 1
    ELSE CASE rpn[i].k = "Name"  -> Balanced(rpn, i + 1, depth + 1)
           [] rpn[i].k = "Unary" -> depth >= 1 /\ Balanced(rpn, i + 1, depth)
           [] OTHER              -> depth >= 2 /\ Balanced(rpn, i + 1, depth - 1)

UnbalancedTexts ==
    { <<"3", " ", "2", " ", "+", " ", "*">>, <<"8", " ", "7", " ", "+", " ", "+">>,
      <<"+">>, <<"8", " ", "7">> }

RECURSIVE FirstIn(_, _, _)
FirstIn(text, chars, i) ==
    IF i > Len(text) THEN 0
    ELSE IF text[i] \in chars THEN i
    ELSE FirstIn(text, chars, i + 1)

(* Whether an angle bracket that is not half of '<<' or '>>' stands before *)
(* the place stop.                                                         *)
RECURSIVE LoneAngleBefore(_, _, _)
LoneAngleBefore(text, i, stop) ==
    IF i >= stop THEN FALSE
    ELSE IF text[i] \notin {"<", ">"} THEN LoneAngleBefore(text, i + 1, stop)
    ELSE IF i + 1 <= Len(text) /\ text[i + 1] = text[i]
    THEN LoneAngleBefore(text, i + 2, stop)
    ELSE TRUE

ReturnedRpn == entry = "parse_rpn" /\ pc = "parsed"

(* C12: when the text given to parse_rpn holds '(', ')', '!' or '~' and no *)
(* lone '<' or '>' stands before the first of them, parse_rpn returns      *)
(* InvalidRPNOperator(c) for that first character c, whatever the balance  *)
(* of the text ('3 (4 + 3) 2 + *' and '(88 77 +)' give                     *)
(* InvalidRPNOperator('(')); parse_rpn never returns MathParseInternalBug. *)
C12_InvalidRpnOperator ==
    ReturnedRpn =>
      /\ parsed # MathParseInternalBug
      /\ LET first == FirstIn(expression, NoBinaryChars, 1) IN
         (first # 0 /\ ~LoneAngleBefore(expression, 1, first))
           => parsed = InvalidRPNOperator(expression[first])
      /\ expression \in { <<"3", " ", "(", "4", " ", "+", " ", "3", ")", " ", "2", " ", "+", " ", "*">>,
                          <<"(", "8", "8", " ", "7", "7", " ", "+", ")">> }
           => parsed = InvalidRPNOperator("(")

(* '6 1 << ~ 2 +', balanced but for the '~', has been refused for the '~'. *)
C12_Witness ==
    /\ ReturnedRpn
    /\ expression = <<"6", " ", "1", " ", "<", "<", " ", "~", " ", "2", " ", "+">>
    /\ parsed = InvalidRPNOperator("~")

(* Whether some ")" of the text has no unmatched "(" before it. *)
RECURSIVE HasUnopened(_, _, _)
HasUnopened(text, i, open) ==
    IF i > Len(text) THEN FALSE
    ELSE IF text[i] = "(" THEN HasUnopened(text, i + 1, open + 1)
    ELSE IF text[i] = ")"
    THEN open = 0 \/ HasUnopened(text, i + 1, open - 1)
    ELSE HasUnopened(text, i + 1, open)

(* The number of "(" of the text that are never closed. *)
RECURSIVE OpenLeft(_, _, _)
OpenLeft(text, i, open) ==
    IF i > Len(text) THEN open
    ELSE IF text[i] = "(" THEN OpenLeft(text, i + 1, open + 1)
    ELSE IF text[i] = ")"
    THEN OpenLeft(text, i + 1, IF open = 0 THEN 0 ELSE open - 1)
    ELSE OpenLeft(text, i + 1, open)

UnbalancedParentheses(text) ==
    HasUnopened(text, 1, 0) \/ OpenLeft(text, 1, 0) > 0

IsParenthesisError(r) == r \in {UnopenedParenthesis, UnclosedParenthesis}

(* C13: parse never returns Ok for an expression whose parentheses are     *)
(* unbalanced; unless another error is returned, a ")" with no unmatched   *)
(* "(" before it gives UnopenedParenthesis ('33)'), a "(" never closed     *)
(* gives UnclosedParenthesis ('((33)'), and the unopened ")" is the one    *)
(* reported when both occur.                                               *)
C13_UnbalancedParentheses ==
    /\ (Returned /\ UnbalancedParentheses(expression)) =>
         /\ parsed.t # "Ok"
         /\ (IsErr(parsed) /\ ~IsParenthesisError(parsed))
            \/ parsed = (IF HasUnopened(expression, 1, 0)
                         THEN UnopenedParenthesis ELSE UnclosedParenthesis)
    /\ (Returned /\ ~UnbalancedParentheses(expression))
         => ~IsParenthesisError(parsed)
    /\ (Returned /\ expression \in { <<"3", "3", ")">>, <<")", "(">>,
                                     <<"(", "1", ")", ")", "(">>, <<"1", ")", "+", "(", "2">> })
         => parsed = UnopenedParenthesis
    /\ (Returned /\ expression \in { <<"(", "(", "3", "3", ")">>, <<"(", "1", "+", "2">>,
                                     <<"3", "*", "(">> })
         => parsed = UnclosedParenthesis

(* '(1))(' has both an unopened ")" and an unclosed "(", and the unopened  *)
(* one has been reported.                                                  *)
C13_Witness ==
    /\ Returned
    /\ expression = <<"(", "1", ")", ")", "(">>
    /\ parsed = UnopenedParenthesis

(* C14: a binary-only operator c (an operator character other than + -     *)
(* U+2212 ! ~ and the parentheses) that is the first token, directly follows "("  *)
(* or directly follows another operator makes parse return                 *)
(* MisplacedOperator(c) ('*2' and '33+*23' give MisplacedOperator('*')),   *)
(* in preference to any parenthesis or empty-operand error.                *)
C14_MisplacedOperator ==
    \A c \in BinaryOnlyChars :
       (/\ entry = "parse"
        /\ \E pre \in PlainPrefixes \cup MergedPrefixes,
              post \in { <<>>, <<"2">>, <<"2", "3">>, <<")">> } :
                expression = pre \o <<c>> \o post)
         => /\ ~Stuck
            /\ pc = "parsed" => parsed = MisplacedOperator(c)

(* The same for the operators that follow the start of the text, "(", a    *)
(* unary operator or an operator written as one character.                 *)
C14_AfterPlainOperator ==
    \A c \in BinaryOnlyChars :
       (/\ Returned
        /\ \E pre \in PlainPrefixes, post \in { <<>>, <<"2">>, <<"2", "3">>, <<")">> } :
                expression = pre \o <<c>> \o post)
         => parsed = MisplacedOperator(c)

(* C15: parse returns EmptyLine for the empty expression, for an empty     *)
(* parenthesis group ('22+()') and whenever the right-hand side of a       *)
(* binary operator is empty ('2/'), at the top level or inside a           *)
(* parenthesis group.                                                      *)
C15_EmptyLine ==
    Returned =>
      /\ expression \in { <<>>, <<"2", "2", "+", "(", ")">>, <<"(", ")">>, <<"2", "/">> }
           => parsed = EmptyLine
      /\ \A o \in BinaryOpTexts :
           expression \in { AtTopLevel(o), InGroup(o), AfterSum(o) }
             => parsed = EmptyLine

(* The same at the top level, for the operators written as one character,  *)
(* and for the empty expression and the empty group.                       *)
C15_AtTopLevel ==
    Returned =>
      /\ expression \in { <<>>, <<"2", "2", "+", "(", ")">>, <<"(", ")">>, <<"2", "/">> }
           => parsed = EmptyLine
      /\ \A o \in BinaryOpTexts :
           (Len(o) = 1 /\ expression = AtTopLevel(o)) => parsed = EmptyLine

(* C16: for every text and variable map, parse, parse_rpn, to_tree and the *)
(* solve functions never return MathParseInternalBug: the walk from the    *)
(* positional array to the RPN list never reaches a raw Operator or a      *)
(* ParenClose, and no offset resolves to a negative index.                 *)
C16_NoInternalBug ==
    /\ parsed # MathParseInternalBug
    /\ res_auto # MathParseInternalBug
    /\ res_int # MathParseInternalBug
    /\ res_float # MathParseInternalBug
    /\ res_tree # MathParseInternalBug
    /\ (pc = "rpn" /\ Len(rpn_steps) > 0) =>
         LET step == rpn_steps[Len(rpn_steps)] IN
         /\ step.index >= 1
         /\ (step.kind = "Solve" /\ step.index <= Len(line))
              => line[step.index].k \notin {"Operator", "ParenClose"}

(* C17: for every text and variable map, parse, parse_rpn and the solve    *)
(* functions return Ok or an Err of MathParseErrors and never abort: not   *)
(* on overflow of Int + - * or of unary minus, on a shift amount of the    *)
(* width or more, on the remainder or integer division of the smallest Int *)
(* by -1, on '//' with a non-zero Float divisor that rounds to 0, on a     *)
(* name with multi-byte characters, or on an index outside the array.      *)
C17_NeverAborts ==
    /\ parsed # Panic
    /\ res_auto # Panic /\ res_int # Panic /\ res_float # Panic
    /\ res_tree # Panic /\ res_exec # Panic
    /\ num_res # Panic

(* The expressions that abort in every build: '//' with a Float divisor   *)
(* that rounds to 0, and a name whose third byte is inside a character.    *)
C17_AbortsInEveryBuild ==
    (/\ Returned /\ res_auto # Unset
     /\ expression \in { <<"1", "/", "/", "0", ".", "2", "5">>,
                         <<"7", "u27CC", "0", ".", "2", "5">>,
                         <<"u20AC">>, <<"a", "u00E9">>, <<"1", "+", "u20AC">> })
      => res_auto = Panic

ReturnedWithMap == Returned /\ parsed.t = "Ok" /\ variable_map.kind = "Some"

Reparsed(tree) ==
    LET again(p) == IF p.t = "Ok" THEN parse_to_tree(p.rpn) ELSE p
    IN again(MathParse_parse(TreeDisplay(tree)))

RECURSIVE HasBinaryNode(_)
HasBinaryNode(tree) ==
    CASE tree.k = "Name"  -> FALSE
      [] tree.k = "Unary" -> HasBinaryNode(tree.next)
      [] OTHER            -> TRUE

TreeBuilt == Returned /\ parsed.t = "Ok" /\ res_tree # Unset /\ res_tree.t = "Ok"

(* C19: for every tree t that to_tree() returns for a successfully parsed  *)
(* infix expression, parsing the rendering of t and calling to_tree()      *)
(* gives a tree equal to t, whatever unary and binary operators t uses.    *)
C19_DisplayRoundTrip == TreeBuilt => Reparsed(res_tree.v) = res_tree

(* What the code does keep: a tree made of unary operators over one name   *)
(* is rendered without spaces and is read back unchanged.                  *)
C19_WithoutBinaryNode ==
    (TreeBuilt /\ ~HasBinaryNode(res_tree.v)) => Reparsed(res_tree.v) = res_tree

(* The unary operator a sign character stands for. *)
SignOp(c) == IF c = "+" THEN "Plus" ELSE "Minus"

(* The unary instructions of a chain of signs, from the sign next to the   *)
(* operand to the first sign of the chain.                                 *)
InnermostFirst(chain) ==
    [i \in 1..Len(chain) |-> Unary(SignOp(chain[Len(chain) + 1 - i]))]

MinusCount(chain) == Cardinality({ i \in 1..Len(chain) : chain[i] # "+" })

Signed(chain, x) == IF MinusCount(chain) % 2 = 0 THEN x ELSE 0 - x

(* C20: k signs drawn from '+', '-' and the minus sign U+2212 before an    *)
(* operand give the RPN 'operand, then the k unary operators from the one  *)
(* next to the operand to the first one', and the value is the operand     *)
(* when the number of minus signs is even and its opposite when it is odd  *)
(* (with a = 3: 3 or -3, and 6 or -6 as the right operand of '2*').        *)
C20_SignChain ==
    \A chain \in SignChains :
       /\ (Returned /\ variable_map = SignMap /\ expression = chain \o <<"a">>) =>
            /\ parsed = OkRpn(<<RpnName(<<"a">>)>> \o InnermostFirst(chain))
            /\ res_auto # Unset => res_auto = IntV(Signed(chain, 3))
       /\ (Returned /\ variable_map = SignMap
             /\ expression = <<"2", "*">> \o chain \o <<"a">>) =>
            /\ parsed = OkRpn(<<RpnName(<<"2">>), RpnName(<<"a">>)>>
                                \o InnermostFirst(chain)
                                \o <<Binary("Multiplication")>>)
            /\ res_auto # Unset => res_auto = IntV(Signed(chain, 6))

(* The chain of seven signs of the library's test has been parsed and      *)
(* solved: four minus signs, so the value is 3.                            *)
C20_Witness ==
    /\ Returned /\ variable_map = SignMap
    /\ expression = <<"-", "u2212", "-", "+", "+", "+", "-", "a">>
    /\ Len(parsed.rpn) = 8
    /\ res_auto = IntV(3)

(* The text without its spaces. *)
RECURSIVE Unspaced(_)
Unspaced(text) ==
    IF Len(text) = 0 THEN <<>>
    ELSE (IF text[1] = " " THEN <<>> ELSE <<text[1]>>) \o Unspaced(Tail(text))

HasSpace(text) == " " \in { text[i] : i \in 1..Len(text) }

(* What parse followed by solve_auto gives for a text: the error of parse, *)
(* or what solve_auto returns.                                             *)
OutcomeOf(text, map) ==
    LET solved(p) == IF p.t # "Ok" THEN p ELSE solve_auto(build, p.rpn, map)
    IN solved(MathParse_parse(text))

(* The expressions of the library's tests written with spaces between      *)
(* their tokens.                                                           *)
SpacedTexts ==
    { <<"1", " ", "+", " ", "-", " ", "1">>,
      <<"1", " ", "-", " ", "(", "1", "*", "3", ")">>,
      <<"3", " ", "+", " ", "8", ".", "0">>,
      <<"3", " ", "-", " ", "8", ".", "5">>,
      <<"-", "a", " ", "+", " ", "b", " ", "u2212", " ", "c">> }

(* C21: an infix expression with spaces between its tokens parses and      *)
(* solves to the same value as the expression without the spaces           *)
(* ('1 + - 1' gives Int 0 as '1+-1' does, '1 - (1*3)' gives Int -2).       *)
C21_SpacesIgnored ==
    (Returned /\ expression \in SpacedTexts) =>
       /\ parsed.t = "Ok"
       /\ res_auto # Unset => res_auto = OutcomeOf(Unspaced(expression), variable_map)

(* What the code does with them: the spaces stay in the names, a space     *)
(* alone between two operators is a name of its own, and the first name    *)
(* read is refused as a number; without spaces the documented values come. *)
C21_SpacesKept ==
    /\ (Returned /\ expression = <<"1", " ", "+", " ", "-", " ", "1">>) =>
         /\ parsed = OkRpn(<<RpnName(<<"1", " ">>), RpnName(<<" ">>), Binary("Addition"),
                             RpnName(<<" ", "1">>), Binary("Subtraction")>>)
         /\ res_auto # Unset => res_auto = InvalidNumber(<<"1", " ">>)
    /\ (Returned /\ expression = <<"1", " ", "-", " ", "(", "1", "*", "3", ")">>
          /\ res_auto # Unset) => res_auto = InvalidNumber(<<"1", " ">>)
    /\ (Returned /\ expression = <<"1", "+", "-", "1">> /\ res_auto # Unset)
         => res_auto = IntV(0)
    /\ (Returned /\ expression = <<"1", "-", "(", "1", "*", "3", ")">> /\ res_auto # Unset)
         => res_auto = IntV(-2)
    /\ (Returned /\ expression = <<"3", " ", "3", " ", "+">>) => parsed = EmptyLine

(* The indexes a token of the positional array points to: its index plus   *)
(* each of its offsets.                                                    *)
Targets(tokens, i) ==
    CASE tokens[i].k = "Operation"      -> <<i + tokens[i].o1, i + tokens[i].o2>>
      [] tokens[i].k = "UnaryOperation" -> <<i + tokens[i].o>>
      [] tokens[i].k = "ParenOpen"      -> <<i + tokens[i].o>>
      [] OTHER                        -> <<>>

(* Following the offsets from the indexes of todo stays inside the array   *)
(* and meets no index of seen, nor any index twice.                        *)
RECURSIVE VisitsOnce(_, _, _)
VisitsOnce(tokens, todo, seen) ==
    IF Len(todo) = 0 THEN TRUE
    ELSE IF todo[1] \notin 1..Len(tokens) \/ todo[1] \in seen THEN FALSE
    ELSE VisitsOnce(tokens, Targets(tokens, todo[1]) \o Tail(todo), seen \cup {todo[1]})

IsTree(tokens) == VisitsOnce(tokens, <<1>>, {})

(* math_parse has succeeded: the positional array is handed to the         *)
(* conversion to RPN.                                                      *)
MathParsed == entry = "parse" /\ pc = "rpn"

(* C22: after math_parse succeeds, the tokens reachable from element 0 of  *)
(* the positional array form a tree: every index plus offset is an index   *)
(* of the array and following the offsets from the root visits no index    *)
(* twice.                                                                  *)
C22_PositionalTree == MathParsed => IsTree(line)

(* The same over the expressions in which no '//', '<<' or '>>' was        *)
(* merged: there the reachable structure is a tree.                        *)
HasCompound(text) ==
    \E i \in 1..(Len(text) - 1) :
       text[i] = text[i + 1] /\ text[i] \in {"/", "<", ">"}

C22_WithoutCompound == (MathParsed /\ ~HasCompound(expression)) => IsTree(line)

(* C23: the conversion of the positional array to RPN terminates on every  *)
(* array of a successful math_parse: no iteration of its loop leaves the   *)
(* work stack and the output as they were, and it emits at most as many    *)
(* instructions as the array has elements, also when '//', '<<' or '>>'    *)
(* is directly followed by a sign or by another operator.                  *)
C23_WalkTerminates ==
    MathParsed => /\ ~Stuck
                  /\ Len(rpn_ret) <= Len(line)

(* The same over the expressions in which no '//', '<<' or '>>' was        *)
(* merged: there the walk always makes progress within the bound.          *)
C23_WithoutCompound ==
    (MathParsed /\ ~HasCompound(expression)) =>
        /\ ~Stuck
        /\ Len(rpn_ret) <= Len(line)
        /\ Len(rpn_steps) <= Len(line)

TokensOf(text) == math_token(text)

IsSign(t) == t.k = "Operator" /\ t.c \in {"+", "-", "u2212", "!", "~"}

(* The token stands where a sign is a prefix: first of the line, after     *)
(* '(' or after another operator, the second position of a merged '//',   *)
(* '<<' or '>>' (which token_complex fills with ParenOpen) included.       *)
PrefixPosition(tokens, i) ==
    \/ i = 1
    \/ tokens[i - 1].k = "Operator" /\ tokens[i - 1].c # ")"
    \/ tokens[i - 1].k = "ParenOpen"

AfterPlainToken(tokens, i) == i = 1 \/ tokens[i - 1].k # "ParenOpen"

(* unary_parse has succeeded: its line is handed to paren_parse. *)
UnaryParsed == entry = "parse" /\ pc = "paren"

SignRewritten(tokens, i) ==
    IF PrefixPosition(tokens, i)
    THEN line[i] = UnaryOperation(UnaryOf(tokens[i].c), 1)
    ELSE line[i] = tokens[i]

(* C25: unary_parse rewrites a sign ('+', '-', U+2212, '!', '~') into a    *)
(* UnaryOperation with offset 1 exactly when it is the first token,        *)
(* follows '(' or follows another operator, a merged '//', '<<' or '>>'    *)
(* included, and leaves it a binary Operator when it follows a Name or     *)
(* ')'.                                                                    *)
C25_UnaryRewrite ==
    UnaryParsed =>
       \A i \in 1..Len(line) :
          IsSign(TokensOf(expression)[i]) => SignRewritten(TokensOf(expression), i)

(* The same for the signs that do not directly follow a merged '//', '<<'  *)
(* or '>>': those are rewritten as stated.                                 *)
C25_AfterPlainToken ==
    UnaryParsed =>
       \A i \in 1..Len(line) :
          (IsSign(TokensOf(expression)[i]) /\ AfterPlainToken(TokensOf(expression), i))
             => SignRewritten(TokensOf(expression), i)

(* C26: an infix expression whose last token is a sign in prefix position  *)
(* with no operand after it ('3++', '-') makes parse return                *)
(* TrailingOperator, and no RPN list is returned.                          *)
C26_TrailingOperator ==
    \A pre \in PlainBefore \cup MergedBefore, c \in SignChars :
       (Returned /\ expression = pre \o <<c>>) => parsed = TrailingOperator

(* The same for the signs that do not directly follow a merged '//', '<<'  *)
(* or '>>': the unary operation points at the TrailingError token and the  *)
(* conversion to RPN reports it.                                           *)
C26_AfterPlainOperator ==
    \A pre \in PlainBefore, c \in SignChars :
       (Returned /\ expression = pre \o <<c>>) => parsed = TrailingOperator

(* What is returned after a merged operator: the sign is left binary and   *)
(* has no operand on its right.                                            *)
C26_AfterMergedOperator ==
    \A pre \in MergedBefore, c \in SignChars :
       (Returned /\ expression = pre \o <<c>>) =>
          parsed = (IF c \in {"!", "~"} THEN MathParseInternalBug ELSE EmptyLine)

(* The quotient of two integers truncated toward zero. *)
TruncQuot(a, b) ==
    IF (a >= 0) = (b >= 0) THEN Abs(a) \div Abs(b) ELSE 0 - (Abs(a) \div Abs(b))

(* The integer a Number holds: an Int, or a Float that is an integer no    *)
(* larger than INTEGRAL_LIMIT; NoInteger otherwise.                        *)
NoInteger == MaxInt + 1
IntegerHeld(n) ==
    IF IsInt(n) THEN n.v
    ELSE IF IsFloat(n) /\ f_to_i_strict(n).t = "Ok" THEN f_to_i_strict(n).v
    ELSE NoInteger

IntegerDivided == pc = "num" /\ num_op = "IntegerDiv"

(* C27: for every Int a and every Int b other than 0, a // b is Int(q)     *)
(* with q the quotient truncated toward zero; Float operands that hold     *)
(* integers give the same Int; a successful // returns an Int.             *)
C27_IntegerDivision ==
    IntegerDivided =>
       /\ (IsInt(num_1) /\ IsInt(num_2) /\ num_2.v # 0)
            => num_res = IntV(TruncQuot(num_1.v, num_2.v))
       /\ (IsFloat(num_1) /\ IsFloat(num_2) /\ IntegerHeld(num_1) # NoInteger
             /\ IntegerHeld(num_2) \notin {NoInteger, 0})
            => num_res = IntV(TruncQuot(IntegerHeld(num_1), IntegerHeld(num_2)))
       /\ IsNum(num_res) => IsInt(num_res)

(* The same without the one quotient that is no i64, i64::MIN // -1, for   *)
(* which the remainder taken first aborts in every build.                  *)
C27_Representable ==
    IntegerDivided =>
       /\ (IsInt(num_1) /\ IsInt(num_2) /\ num_2.v # 0
             /\ ~(num_1.v = MinInt /\ num_2.v = -1))
            => num_res = IntV(TruncQuot(num_1.v, num_2.v))
       /\ (IsInt(num_1) /\ IsInt(num_2) /\ num_1.v = MinInt /\ num_2.v = -1)
            => num_res = Panic
       /\ (IsFloat(num_1) /\ IsFloat(num_2) /\ IntegerHeld(num_1) # NoInteger
             /\ IntegerHeld(num_2) \notin {NoInteger, 0})
            => num_res = IntV(TruncQuot(IntegerHeld(num_1), IntegerHeld(num_2)))
       /\ IsNum(num_res) => IsInt(num_res)

(* The first k instructions of a list. *)
Prefix(rpn, k) == SubSeq(rpn, 1, k)

(* Executing the first k instructions fails with the given result. *)
PrefixFails(rpn, k, map) == exec_rpn_loop(build, map, Prefix(rpn, k), 1, <<>>).t # "Ok"
PrefixResult(rpn, k, map) == exec_rpn_loop(build, map, Prefix(rpn, k), 1, <<>>)

Ones(o1, o2) ==
    <<RpnName(<<"1">>), RpnName(<<"1">>), RpnName(<<"1">>),
      Binary(OpOfText(o1)), Binary(OpOfText(o2))>>

C29_TrialEvaluation ==
    \A n \in RpnNameTriples : \A o \in RpnOperatorPairs(n) :
       (ReturnedRpn /\ expression = RpnBalanced(n, o[1], o[2])) =>
          /\ parsed.t = "Ok" <=> math_solve(build, Ones(o[1], o[2]), NoMap).t = "Ok"
          /\ parsed.t # "Ok" => parsed = math_solve(build, Ones(o[1], o[2]), NoMap)
          /\ (o[1] \in { <<"-">>, <<"%">>, <<"^">>, <<">", ">">> }
                /\ o[2] \in { <<"/">>, <<"%">>, <<"/", "/">> })
               => parsed = UnexpectedZero

(* How many elements of a sequence are in a set. *)
RECURSIVE CountIn(_, _)
CountIn(seq, set) ==
    IF Len(seq) = 0 THEN 0
    ELSE (IF seq[1] \in set THEN 1 ELSE 0) + CountIn(Tail(seq), set)

Kinds(seq) == [i \in 1..Len(seq) |-> seq[i].k]

(* The operator tokens of a line other than the parentheses (a merged      *)
(* '//', '<<' or '>>' is one Operator token).                              *)
RECURSIVE OperatorTokens(_)
OperatorTokens(tokens) ==
    IF Len(tokens) = 0 THEN 0
    ELSE (IF tokens[1].k = "Operator" /\ tokens[1].c \notin {"(", ")"} THEN 1 ELSE 0)
         + OperatorTokens(Tail(tokens))

(* C30: when parse succeeds, the RPN holds one Name instruction for each   *)
(* Name token of the input and one operator instruction for each operator  *)
(* token other than the parentheses: '3(4)', '(3)(4)', '(3+)' and          *)
(* '(3+4+)' are rejected or used in full.                                  *)
C30_NothingIgnored ==
    (Returned /\ parsed.t = "Ok") =>
        /\ CountIn(Kinds(parsed.rpn), {"Name"})
             = CountIn(Kinds(TokensOf(expression)), {"Name"})
        /\ CountIn(Kinds(parsed.rpn), {"Unary", "Binary"})
             = OperatorTokens(TokensOf(expression))

(* What parse returns for them: the group after an operand and the         *)
(* operator that ends a group are dropped without an error.                *)
C30_SilentlyIgnored ==
    /\ (Returned /\ expression \in { <<"3", "(", "4", ")">>, <<"(", "3", ")", "(", "4", ")">>,
                                     <<"(", "3", "+", ")">> })
         => parsed = OkRpn(<<RpnName(<<"3">>)>>)
    /\ (Returned /\ expression = <<"(", "3", "+", "4", "+", ")">>)
         => parsed = OkRpn(<<RpnName(<<"3">>), RpnName(<<"4">>), Binary("Addition")>>)
    /\ (Returned /\ expression = <<"2", "*", "3", "(", "4", ")">>)
         => /\ parsed = OkRpn(<<RpnName(<<"2">>), RpnName(<<"3">>),
                                Binary("Multiplication")>>)
            /\ res_auto # Unset => res_auto = IntV(6)

====
